---- MODULE Spec2Model ----
(***************************************************************************)
(* chessiro-canvas: the interaction state machine of the board             *)
(* (useInteraction), with the coordinate transform and the premove         *)
(* destination generator it consults.                                      *)
(*                                                                         *)
(* A square is the pair <<file, rank>> with file and rank in 0..7          *)
(* ("e7" is <<4, 6>>); "no square" / undefined / null is the empty tuple.  *)
(* An optional value is a tuple of length 0 (absent) or 1 (present).       *)
(***************************************************************************)
EXTENDS Integers, Sequences, FiniteSets, TLC

\* ------------------------------------------------------------------------
\* Generic helpers
\* ------------------------------------------------------------------------
None == <<>>

Some(x) == <<x>>

Includes(seq, x) == \E i \in 1..Len(seq) : seq[i] = x

Abs(n) == IF n < 0 THEN -n ELSE n

\* ------------------------------------------------------------------------
\* Squares, pieces (types.ts, coords.ts)
\* ------------------------------------------------------------------------
Squares == (0..7) \X (0..7)

PromotionPieces == {"q", "r", "b", "n"}

Piece(c, r) == [color |-> c, role |-> r]

\* Pieces is a Map<Square, Piece>: a function whose domain is the set of
\* occupied squares.
Has(pieces, s) == s \in DOMAIN pieces

isValid(f, r) == f >= 0 /\ f < 8 /\ r >= 0 /\ r < 8

pos2square(pos) ==
  IF pos[1] < 0 \/ pos[1] > 7 \/ pos[2] < 0 \/ pos[2] > 7 THEN None
  ELSE <<pos[1], pos[2]>>

\* screenPos2square as it would be if a point outside the board were clamped
\* to the nearest edge cell.
screenPos2square_clamped(clientX, clientY, asWhite, bounds) ==
  LET clamp(n) == IF n < 0 THEN 0 ELSE IF n > 7 THEN 7 ELSE n
      file0 == clamp((8 * (clientX - bounds.left)) \div bounds.width)
      file  == IF asWhite THEN file0 ELSE 7 - file0
      rank0 == 7 - clamp((8 * (clientY - bounds.top)) \div bounds.height)
      rank  == IF asWhite THEN rank0 ELSE 7 - rank0
  IN pos2square(<<file, rank>>)

screenPos2square(clientX, clientY, asWhite, bounds) ==
  LET file0 == (8 * (clientX - bounds.left)) \div bounds.width
      file  == IF asWhite THEN file0 ELSE 7 - file0
      rank0 == 7 - ((8 * (clientY - bounds.top)) \div bounds.height)
      rank  == IF asWhite THEN rank0 ELSE 7 - rank0
  IN IF file < 0 \/ file > 7 \/ rank < 0 \/ rank > 7 THEN None
     ELSE pos2square(<<file, rank>>)

\* ------------------------------------------------------------------------
\* premoveDests (utils/premove.ts)
\* ------------------------------------------------------------------------
canTarget(pieces, color, tf, tr) ==
  ~Has(pieces, <<tf, tr>>) \/ pieces[<<tf, tr>>].color # color

KnightDeltas == << <<-2,-1>>, <<-2,1>>, <<-1,-2>>, <<-1,2>>,
                   <<1,-2>>, <<1,2>>, <<2,-1>>, <<2,1>> >>

BishopDirs == << <<1,1>>, <<1,-1>>, <<-1,1>>, <<-1,-1>> >>

RookDirs == << <<1,0>>, <<-1,0>>, <<0,1>>, <<0,-1>> >>

QueenDirs == RookDirs \o BishopDirs

\* One square per delta: kept when on the board and not own-occupied.
StepDests(pieces, color, f, r, deltas) ==
  LET RECURSIVE go(_)
      go(i) ==
        IF i > Len(deltas) THEN <<>>
        ELSE LET tf == f + deltas[i][1]
                 tr == r + deltas[i][2]
             IN (IF isValid(tf, tr) /\ canTarget(pieces, color, tf, tr)
                 THEN << <<tf, tr>> >> ELSE <<>>) \o go(i + 1)
  IN go(1)

\* The ray as it would be if the loop ended one step earlier (i < 7).
RayDests_short(pieces, color, f, r, df, dr) ==
  LET RECURSIVE go(_)
      go(i) ==
        IF i >= 7 \/ ~isValid(f + df * i, r + dr * i) THEN <<>>
        ELSE (IF canTarget(pieces, color, f + df * i, r + dr * i)
              THEN << <<f + df * i, r + dr * i>> >> ELSE <<>>) \o go(i + 1)
  IN go(1)

\* for (i = 1; i < 8; i++) { if (!isValid) break; if (canTarget) push }
RayDests(pieces, color, f, r, df, dr) ==
  LET RECURSIVE go(_)
      go(i) ==
        IF i >= 8 \/ ~isValid(f + df * i, r + dr * i) THEN <<>>
        ELSE (IF canTarget(pieces, color, f + df * i, r + dr * i)
              THEN << <<f + df * i, r + dr * i>> >> ELSE <<>>) \o go(i + 1)
  IN go(1)

SlideDests(pieces, color, f, r, dirs) ==
  LET RECURSIVE go(_)
      go(d) ==
        IF d > Len(dirs) THEN <<>>
        ELSE RayDests(pieces, color, f, r, dirs[d][1], dirs[d][2]) \o go(d + 1)
  IN go(1)

PawnDests(color, f, r) ==
  LET dir       == IF color = "w" THEN 1 ELSE -1
      startRank == IF color = "w" THEN 1 ELSE 6
      fwd == IF isValid(f, r + dir)
             THEN << <<f, r + dir>> >> \o
                  (IF r = startRank /\ isValid(f, r + 2 * dir)
                   THEN << <<f, r + 2 * dir>> >> ELSE <<>>)
             ELSE <<>>
      diag(df) == IF isValid(f + df, r + dir)
                  THEN << <<f + df, r + dir>> >> ELSE <<>>
  IN fwd \o diag(-1) \o diag(1)

KingDests(pieces, color, f, r) ==
  LET homeRank == IF color = "w" THEN 0 ELSE 7
      castle == IF f = 4 /\ r = homeRank
                THEN (IF canTarget(pieces, color, 6, homeRank)
                      THEN << <<6, homeRank>> >> ELSE <<>>) \o
                     (IF canTarget(pieces, color, 2, homeRank)
                      THEN << <<2, homeRank>> >> ELSE <<>>)
                ELSE <<>>
  IN StepDests(pieces, color, f, r, QueenDirs) \o castle

premoveDests(square, pieces, color) ==
  IF ~Has(pieces, square) \/ pieces[square].color # color THEN <<>>
  ELSE LET f == square[1]
           r == square[2]
           role == pieces[square].role
       IN CASE role = "p" -> PawnDests(color, f, r)
            [] role = "n" -> StepDests(pieces, color, f, r, KnightDeltas)
            [] role = "b" -> SlideDests(pieces, color, f, r, BishopDirs)
            [] role = "r" -> SlideDests(pieces, color, f, r, RookDirs)
            [] role = "q" -> SlideDests(pieces, color, f, r, QueenDirs)
            [] role = "k" -> KingDests(pieces, color, f, r)
            [] OTHER -> <<>>

\* ------------------------------------------------------------------------
\* Bounds of the model: the board rectangle, the pointer positions the
\* events are drawn from, the positions and legal-destination tables the
\* host supplies.
\* ------------------------------------------------------------------------
SqE7 == <<4, 6>>

SqE8 == <<4, 7>>

SqD2 == <<3, 1>>

SqD1 == <<3, 0>>

\* A 64 x 64 px board whose top-left corner is at (8, 16): 8 px squares.
BoardRect == [left |-> 8, top |-> 16, width |-> 64, height |-> 64]

\* Pointer positions: the centres of the cells that show e7 and e8 with
\* white at the bottom (d2 and d1 with black at the bottom), a point 2.2 px
\* away from the first centre inside the same cell, and a point outside the
\* board.
Points == { <<44, 28>>, <<44, 20>>, <<45, 30>>, <<0, 0>> }

\* The two cell centres alone.
CentrePoints == { <<44, 28>>, <<44, 20>> }

\* The positions the host passes (index = the `position` prop).
Fens == <<
  (SqE7 :> Piece("w", "p")) @@ (SqE8 :> Piece("b", "r")) @@
  (SqD2 :> Piece("b", "p")) @@ (SqD1 :> Piece("w", "r")),
  (SqE8 :> Piece("w", "q")) @@ (SqD1 :> Piece("b", "q")) >>

\* The `dests` prop: absent, or one of these tables.
DestTables ==
  { (SqE7 :> <<SqE8>>) @@ (SqE8 :> <<SqE7>>) @@ (SqD2 :> <<SqD1>>) @@ (SqD1 :> <<SqD2>>),
    (SqE8 :> <<SqE7>>) @@ (SqD1 :> <<SqD2>>) }

DestsInputs == {None} \cup { Some(t) : t \in DestTables }

TurnInputs == {"none", "w", "b"}

MovableInputs == {"none", "w", "b"}

\* premovable prop: absent, or { enabled, current? }.
PremovableInputs == { None, Some([enabled |-> TRUE, current |-> None]) }

\* Pointer kinds: mouse button 0, mouse button 2, touch.
PointerKinds == {"left", "right", "touch"}

PrimaryKinds == {"left", "touch"}

MouseKinds == {"left", "right"}

\* 'button' in e && isRightButton(e)
isRightButton(kind) == kind = "right"

\* What the handlers tell apart in a pointer event.
button(kind) == IF isRightButton(kind) THEN "right" ELSE "primary"

\* Modifier keys of a mouse event: <<shift or ctrl, alt or meta>>.
ModifierInputs == { <<FALSE, FALSE>> }

\* At most this many justDrewArrow timeouts are pending at once.
MaxTimers == 1

\* Pixels the pointer must travel from the press before a drag starts.
DRAG_THRESHOLD == 4

\* ------------------------------------------------------------------------
\* State of one board instance (useInteraction)
\* ------------------------------------------------------------------------
VARIABLES
  opts,              \* UseInteractionOptions, as of the last render
  selectedSquare, legalSquares, premoveSquares, premoveCurrent,
  pendingPromotion,
  drag,              \* React state: the drag as of the last setDrag
  dragRef,           \* dragRef.current
  arrowStartRef, arrowColorRef, arrowPosRef,
  justDrewArrowRef, dragKeyChangedRef,
  internalArrowsMap, internalMarksMap,
  timers,            \* pending setTimeout(..., 150) callbacks
  travelled,         \* history: since the press that armed the drag, the
                     \* pointer has been DRAG_THRESHOLD px or more away from
                     \* the press point
  log,               \* what the last event did, in order: the handler
                     \* entered (pointer down and up, the dialog, deselect),
                     \* internal calls and host callbacks
  now,               \* performance.now(), in clock units
  rafQueue,          \* callbacks requested with requestAnimationFrame and
                     \* neither run nor cancelled yet
  animRef,           \* PiecesLayer: animRef.current
  rafIdRef,          \* PiecesLayer: rafIdRef.current
  controllerCurrent, \* createAnimationController: current
  controllerRafId,   \* createAnimationController: rafId
  planCount,         \* history: animation plans installed so far
  callArgs,          \* the arguments of the last call of a pure function
  callResult,        \* what that call returned
  skipNextAnimRef,   \* PiecesLayer: skipNextAnimRef.current
  prevDraggingRef,   \* PiecesLayer: prevDraggingRef.current
  positionHistory,   \* PiecesLayer: positionHistory.current
  sinceDragEnd       \* history: position changes rendered at or after the
                     \* last render in which a drag ended (none before the
                     \* first such render)

vars == << opts, selectedSquare, legalSquares, premoveSquares, premoveCurrent,
           pendingPromotion, drag, dragRef, arrowStartRef, arrowColorRef,
           arrowPosRef, justDrewArrowRef, dragKeyChangedRef,
           internalArrowsMap, internalMarksMap, timers, travelled, log,
          now, rafQueue, animRef, rafIdRef, controllerCurrent, controllerRafId,
          planCount, callArgs, callResult, skipNextAnimRef, prevDraggingRef,
          positionHistory, sinceDragEnd >>

\* The last call of a pure function.
callVars == << callArgs, callResult >>

\* What a render of PiecesLayer keeps for the next one.
layerVars == << skipNextAnimRef, prevDraggingRef, positionHistory,
               sinceDragEnd >>

\* The state of the animation engines (and what the handlers of the
\* interaction leave alone with it).
animVars == << now, rafQueue, animRef, rafIdRef, controllerCurrent,
               controllerRafId, planCount, callVars, layerVars >>

\* A log entry: the function called and its arguments.
E(fn, args) == [fn |-> fn, args |-> args]

\* The state a handler reads and writes while it runs: the queued setState
\* calls and ref writes, applied in order.
Draft == [sel |-> selectedSquare, legal |-> legalSquares, pm |-> premoveSquares,
          cur |-> premoveCurrent, pend |-> pendingPromotion,
          am |-> internalArrowsMap, mm |-> internalMarksMap,
          jd |-> justDrewArrowRef, curW |-> FALSE, log |-> <<>>]

Log(d, e) == [d EXCEPT !.log = Append(@, e)]

\* piecesRef.current for the props o
piecesOf(o) == Fens[o.position]

pieces == piecesOf(opts)

asWhite == opts.orientation = "white"

premovableEnabled(o) == o.premovable # None /\ o.premovable[1].enabled

freeModeOf(o) == o.turnColor = "none" /\ o.movableColor = "none"

freeMode == freeModeOf(opts)

\* movableColor ?? turnColor ?? 'w'
effectiveColorOf(o) ==
  IF o.movableColor # "none" THEN o.movableColor
  ELSE IF o.turnColor # "none" THEN o.turnColor ELSE "w"

effectiveColor == effectiveColorOf(opts)

canMoveColorOf(o, color) ==
  IF freeModeOf(o) THEN TRUE
  ELSE IF effectiveColorOf(o) = "both" THEN TRUE
  ELSE color = effectiveColorOf(o) /\ (o.turnColor = "none" \/ color = o.turnColor)

canMoveColor(color) == canMoveColorOf(opts, color)

\* canPremoveColor as it would be without the test of the turn.
canPremoveColorOf_anyTurn(o, color) ==
  IF ~premovableEnabled(o) THEN FALSE
  ELSE IF effectiveColorOf(o) = "both" THEN FALSE
  ELSE color = effectiveColorOf(o)

canPremoveColorOf(o, color) ==
  IF freeModeOf(o) THEN FALSE
  ELSE IF ~premovableEnabled(o) THEN FALSE
  ELSE IF effectiveColorOf(o) = "both" THEN FALSE
  ELSE color = effectiveColorOf(o) /\ o.turnColor # "none" /\ color # o.turnColor

canPremoveColor(color) == canPremoveColorOf(opts, color)

\* dests?.get(sq) || []
destsGet(o, sq) ==
  IF o.dests # None /\ sq \in DOMAIN o.dests[1] THEN o.dests[1][sq] ELSE <<>>

getDestsForSquare(sq) == destsGet(opts, sq)

\* hasDragStarted as it would be with a threshold of 2 px.
hasDragStarted_low(dr) ==
  LET dx == dr.currentPos[1] - dr.startPos[1]
      dy == dr.currentPos[2] - dr.startPos[2]
  IN dx * dx + dy * dy >= 2 * 2

\* Math.sqrt(dx * dx + dy * dy) >= DRAG_THRESHOLD, on integers
hasDragStarted(dr) ==
  LET dx == dr.currentPos[1] - dr.startPos[1]
      dy == dr.currentPos[2] - dr.startPos[2]
  IN dx * dx + dy * dy >= DRAG_THRESHOLD * DRAG_THRESHOLD

\* ------------------------------------------------------------------------
\* Move attempts, premove arming, selection
\* ------------------------------------------------------------------------
\* A pawn move that arrives on the far rank: parseInt(to[1]) is 8 / 1.
isPromotionMove(from, to) ==
  /\ Has(pieces, from)
  /\ pieces[from].role = "p"
  /\ \/ pieces[from].color = "w" /\ to[2] + 1 = 8
     \/ pieces[from].color = "b" /\ to[2] + 1 = 1

\* attemptMove as it would be without the promotion prompt: a pawn arriving
\* on the far rank is forwarded like any other move.
attemptMove_noPrompt(d, from, to, promotion, ok) ==
  LET d0 == Log(d, E("attemptMove", <<from, to, promotion>>))
      ret(dd, res) == [res |-> res,
                       d |-> Log(dd, E("attemptMove.return",
                                       <<from, to, res,
                                         [dd EXCEPT !.log = <<>>] # [d EXCEPT !.log = <<>>]>>))]
  IN IF ~opts.onMove \/ ~opts.interactive THEN ret(d0, "false")
     ELSE IF opts.dests # None /\ ~Includes(getDestsForSquare(from), to)
       THEN ret(d0, "false")
     ELSE LET dm == Log(d0, E("onMove", <<from, to, promotion>>))
          IN IF ok
             THEN ret([dm EXCEPT !.sel = None, !.legal = <<>>, !.pm = <<>>], "true")
             ELSE ret(dm, "false")

\* attemptMove as it would be without the legal-destination check.
attemptMove_noDestsCheck(d, from, to, promotion, ok) ==
  LET d0 == Log(d, E("attemptMove", <<from, to, promotion>>))
      ret(dd, res) == [res |-> res,
                       d |-> Log(dd, E("attemptMove.return",
                                       <<from, to, res,
                                         [dd EXCEPT !.log = <<>>] # [d EXCEPT !.log = <<>>]>>))]
  IN IF ~opts.onMove \/ ~opts.interactive THEN ret(d0, "false")
     ELSE IF promotion = "" /\ isPromotionMove(from, to)
       THEN ret([d0 EXCEPT !.pend = Some([from |-> from, to |-> to,
                                          color |-> pieces[from].color])],
                "pending")
     ELSE LET dm == Log(d0, E("onMove", <<from, to, promotion>>))
          IN IF ok
             THEN ret([dm EXCEPT !.sel = None, !.legal = <<>>, !.pm = <<>>], "true")
             ELSE ret(dm, "false")

\* attemptMove(from, to, promotion): promotion "" is undefined; ok is what
\* the host's onMove returns if it is called.  Yields the result and the
\* draft; the log gets the call, the onMove call if made, and the return.
attemptMove(d, from, to, promotion, ok) ==
  LET d0 == Log(d, E("attemptMove", <<from, to, promotion>>))
      \* the return is logged with whether the call wrote any state
      ret(dd, res) == [res |-> res,
                       d |-> Log(dd, E("attemptMove.return",
                                       <<from, to, res,
                                         [dd EXCEPT !.log = <<>>] # [d EXCEPT !.log = <<>>]>>))]
  IN IF ~opts.onMove \/ ~opts.interactive THEN ret(d0, "false")
     ELSE IF opts.dests # None /\ ~Includes(getDestsForSquare(from), to)
       THEN ret(d0, "false")
     ELSE IF promotion = "" /\ isPromotionMove(from, to)
       THEN ret([d0 EXCEPT !.pend = Some([from |-> from, to |-> to,
                                          color |-> pieces[from].color])],
                "pending")
     ELSE LET dm == Log(d0, E("onMove", <<from, to, promotion>>))
          IN IF ok
             THEN ret([dm EXCEPT !.sel = None, !.legal = <<>>, !.pm = <<>>], "true")
             ELSE ret(dm, "false")

\* attemptPremove as it would be if it left the premove highlights in place.
attemptPremove_keepsDests(d, from, to) ==
  IF ~premovableEnabled(opts) THEN d
  ELSE Log([d EXCEPT !.cur = Some(<<from, to>>), !.curW = TRUE, !.sel = None,
                     !.legal = <<>>],
           E("premovable.events.set", <<from, to>>))

attemptPremove(d, from, to) ==
  IF ~premovableEnabled(opts) THEN d
  ELSE Log([d EXCEPT !.cur = Some(<<from, to>>), !.curW = TRUE, !.sel = None,
                     !.legal = <<>>, !.pm = <<>>],
           E("premovable.events.set", <<from, to>>))

\* clearSelection as it would be without setPendingPromotion(null).
clearSelection_keepsPending(d) ==
  LET d0 == [d EXCEPT !.sel = None, !.legal = <<>>, !.pm = <<>>]
  IN IF premoveCurrent # None
     THEN Log([d0 EXCEPT !.cur = None], E("premovable.events.unset", <<>>))
     ELSE d0

\* clearSelection closes over the premoveCurrent of the last render.
clearSelection(d) ==
  LET d0 == [d EXCEPT !.sel = None, !.legal = <<>>, !.pm = <<>>, !.pend = None]
  IN IF premoveCurrent # None
     THEN Log([d0 EXCEPT !.cur = None], E("premovable.events.unset", <<>>))
     ELSE d0

\* ------------------------------------------------------------------------
\* Overlays: arrows and marks
\* ------------------------------------------------------------------------
ply == IF opts.plyIndex # None THEN opts.plyIndex[1] ELSE 0

\* map.get(k) || []
mapGet(m, k) == IF k \in DOMAIN m THEN m[k] ELSE <<>>

\* mapSet as it would be if the list were stored under every key of the map.
mapSet_everyKey(m, k, v) == [x \in DOMAIN m \cup {k} |-> v]

mapSet(m, k, v) == [x \in DOMAIN m \cup {k} |-> IF x = k THEN v ELSE m[x]]

clearMarksForPly(d) ==
  IF opts.markedSquares # None
  THEN IF Len(opts.markedSquares[1]) > 0
       THEN [d |-> IF opts.onMarkedSquaresChange
                   THEN Log(d, E("onMarkedSquaresChange", <<>>)) ELSE d,
             changed |-> TRUE]
       ELSE [d |-> d, changed |-> FALSE]
  ELSE IF opts.onPlyMarksChange /\ opts.plyIndex # None
  THEN IF Len(IF opts.plyMarks # None THEN mapGet(opts.plyMarks[1], ply) ELSE <<>>) > 0
       THEN [d |-> Log(d, E("onPlyMarksChange", <<ply, <<>> >>)), changed |-> TRUE]
       ELSE [d |-> d, changed |-> FALSE]
  ELSE IF Len(mapGet(internalMarksMap, ply)) > 0
       THEN [d |-> [d EXCEPT !.mm = mapSet(@, ply, <<>>)], changed |-> TRUE]
       ELSE [d |-> d, changed |-> FALSE]

clearArrowsForPly(d) ==
  IF opts.onPlyArrowsChange /\ opts.plyIndex # None
  THEN IF Len(IF opts.plyArrows # None THEN mapGet(opts.plyArrows[1], ply) ELSE <<>>) > 0
       THEN [d |-> Log(d, E("onPlyArrowsChange", <<ply, <<>> >>)), changed |-> TRUE]
       ELSE [d |-> d, changed |-> FALSE]
  ELSE IF opts.onArrowsChange
  THEN IF Len(opts.arrows) > 0
       THEN [d |-> Log(d, E("onArrowsChange", <<>>)), changed |-> TRUE]
       ELSE [d |-> d, changed |-> FALSE]
  ELSE IF Len(mapGet(internalArrowsMap, ply)) > 0
       THEN [d |-> [d EXCEPT !.am = mapSet(@, ply, <<>>)], changed |-> TRUE]
       ELSE [d |-> d, changed |-> FALSE]

clearOverlaysForPly(d) ==
  LET m == clearMarksForPly(d)
      a == clearArrowsForPly(m.d)
  IN IF m.changed \/ a.changed THEN Log(a.d, E("onClearOverlays", <<>>)) ELSE a.d

sameArrow(a, start, end) == a.startSquare = start /\ a.endSquare = end

\* The list toggleArrow computes if an arrow matched only when its colour is
\* the toggle's colour too.
toggleArrowList_byColour(current, start, end, color) ==
  LET same(a) == sameArrow(a, start, end) /\ a.color = color
  IN IF \E i \in 1..Len(current) : same(current[i])
     THEN SelectSeq(current, LAMBDA a : ~same(a))
     ELSE Append(current, [startSquare |-> start, endSquare |-> end,
                           color |-> color])

\* `next` of toggleArrow: the list without the arrows of that pair if there
\* is one, else the list with the arrow appended.
toggleArrowList(current, start, end, color) ==
  IF \E i \in 1..Len(current) : sameArrow(current[i], start, end)
  THEN SelectSeq(current, LAMBDA a : ~sameArrow(a, start, end))
  ELSE Append(current, [startSquare |-> start, endSquare |-> end,
                        color |-> color])

toggleArrow(d, start, end, color) ==
  LET current == IF opts.plyArrows # None /\ opts.plyIndex # None
                 THEN mapGet(opts.plyArrows[1], ply)
                 ELSE IF opts.onArrowsChange THEN opts.arrows
                 ELSE mapGet(internalArrowsMap, ply)
      next == toggleArrowList(current, start, end, color)
      d0 == Log(d, E("toggleArrow", <<start, end, color>>))
  IN IF opts.onPlyArrowsChange /\ opts.plyIndex # None
     THEN Log(d0, E("onPlyArrowsChange", <<ply, next>>))
     ELSE IF opts.onArrowsChange THEN Log(d0, E("onArrowsChange", next))
     ELSE [d0 EXCEPT !.am = mapSet(@, ply, next)]

\* new Set(list), then delete or add, then Array.from
toggleList(list, sq) ==
  IF Includes(list, sq) THEN SelectSeq(list, LAMBDA x : x # sq)
  ELSE Append(list, sq)

toggleMark(d, sq) ==
  LET d0 == Log(d, E("toggleMark", <<sq>>))
  IN IF opts.markedSquares # None
     THEN IF opts.onMarkedSquaresChange
          THEN Log(d0, E("onMarkedSquaresChange", toggleList(opts.markedSquares[1], sq)))
          ELSE d0
     ELSE IF opts.onPlyMarksChange /\ opts.plyIndex # None
     THEN Log(d0, E("onPlyMarksChange",
                    <<ply, toggleList(IF opts.plyMarks # None
                                      THEN mapGet(opts.plyMarks[1], ply) ELSE <<>>, sq)>>))
     ELSE [d0 EXCEPT !.mm = mapSet(@, ply, toggleList(mapGet(@, ply), sq))]

\* Nearest square reachable from origSq by a queen or knight move, by
\* squared pixel distance to the cell centres, scanning files then ranks and
\* keeping the first strictly nearer square.  Distances are scaled by 16^2
\* (the centre of column col is left + (2 col + 1) width / 16).
snapCandidate(origSq, f, r) ==
  /\ ~(f = origSq[1] /\ r = origSq[2])
  /\ LET df == Abs(f - origSq[1])
         dr == Abs(r - origSq[2])
     IN \/ (df = 1 /\ dr = 2) \/ (df = 2 /\ dr = 1)
        \/ df = 0 \/ dr = 0 \/ df = dr

snapDist(b, f, r, clientX, clientY) ==
  LET col == IF asWhite THEN f ELSE 7 - f
      row == IF asWhite THEN 7 - r ELSE r
      dx == 16 * (clientX - b.left) - (2 * col + 1) * b.width
      dy == 16 * (clientY - b.top) - (2 * row + 1) * b.height
  IN dx * dx + dy * dy

getSnappedSquare(origSq, clientX, clientY) ==
  IF opts.boardBounds = None THEN None
  ELSE LET b == opts.boardBounds[1]
           \* the loop visits the squares in the order i = 8 f + r and keeps
           \* a square only when it is strictly nearer than the best so far:
           \* the result is the candidate with the least (distance, i)
           order(sq) == 64 * snapDist(b, sq[1], sq[2], clientX, clientY)
                        + 8 * sq[1] + sq[2]
           ranked == { <<order(sq), sq>> :
                       sq \in { c \in Squares : snapCandidate(origSq, c[1], c[2]) } }
       IN IF ranked = {} THEN None
          ELSE (CHOOSE x \in ranked : \A y \in ranked : x[1] <= y[1])[2]

eventBrushColor(kind, mods) ==
  IF kind = "touch" THEN "green"
  ELSE LET idx == (IF mods[1] THEN 1 ELSE 0) + (IF mods[2] THEN 2 ELSE 0)
       IN <<"green", "red", "blue", "yellow">>[idx + 1]

\* ------------------------------------------------------------------------
\* Square click / selection logic
\* ------------------------------------------------------------------------
\* Selecting the piece on sq: its legal destinations if its colour can move,
\* else its premove destinations if its colour can premove.  Yields the
\* draft and whether a selection was made.
selectPiece(d, sq) ==
  LET piece == pieces[sq]
      targets == getDestsForSquare(sq)
      pmTargets == premoveDests(sq, pieces, piece.color)
  IN IF canMoveColor(piece.color) /\ (Len(targets) > 0 \/ opts.dests = None)
     THEN [done |-> TRUE,
           d |-> Log([d EXCEPT !.sel = sq, !.legal = targets, !.pm = <<>>],
                     E("onSquareClick", <<sq>>))]
     ELSE IF canPremoveColor(piece.color) /\ Len(pmTargets) > 0
     THEN [done |-> TRUE,
           d |-> Log([d EXCEPT !.sel = sq, !.legal = <<>>, !.pm = pmTargets],
                     E("onSquareClick", <<sq>>))]
     ELSE [done |-> FALSE, d |-> d]

\* The part of handleSquareInteraction after the move attempt.
afterMoveAttempt(d, sq) ==
  IF selectedSquare # None /\ Includes(premoveSquares, sq)
  THEN attemptPremove(d, selectedSquare, sq)
  ELSE IF selectedSquare = sq THEN clearSelection(d)
  ELSE LET s == IF Has(pieces, sq) THEN selectPiece(d, sq)
                ELSE [done |-> FALSE, d |-> d]
       IN IF s.done THEN s.d
          ELSE Log(clearSelection(d), E("onSquareClick", <<sq>>))

\* handleSquareInteraction as it would be if it left a stored premove alone.
handleSquareInteraction_keepsPremove(d, sq, ok) ==
  LET dE == Log(d, E("handleSquareInteraction", <<sq>>))
  IN IF ~opts.interactive THEN Log(dE, E("onSquareClick", <<sq>>))
     ELSE IF d.jd THEN [dE EXCEPT !.jd = FALSE]
     ELSE LET dO == clearOverlaysForPly(dE)
          IN IF selectedSquare # None /\ Includes(legalSquares, sq)
             THEN LET m == attemptMove(dO, selectedSquare, sq, "", ok)
                  IN IF m.res # "false" THEN m.d ELSE afterMoveAttempt(m.d, sq)
             ELSE afterMoveAttempt(dO, sq)

handleSquareInteraction(d, sq, ok) ==
  LET dE == Log(d, E("handleSquareInteraction", <<sq>>))
  IN IF ~opts.interactive THEN Log(dE, E("onSquareClick", <<sq>>))
     ELSE IF d.jd THEN [dE EXCEPT !.jd = FALSE]
     ELSE LET dO == clearOverlaysForPly(dE)
              dP == IF premoveCurrent # None
                    THEN Log([dO EXCEPT !.cur = None],
                             E("premovable.events.unset", <<>>))
                    ELSE dO
          IN IF selectedSquare # None /\ Includes(legalSquares, sq)
             THEN LET m == attemptMove(dP, selectedSquare, sq, "", ok)
                  IN IF m.res # "false" THEN m.d ELSE afterMoveAttempt(m.d, sq)
             ELSE afterMoveAttempt(dP, sq)

\* ------------------------------------------------------------------------
\* Effects
\* ------------------------------------------------------------------------
\* The reset effect as it would be without setPendingPromotion(null).
resetSelectionEffect_keepsPending(d) ==
  IF d.sel = None /\ Len(d.legal) = 0 /\ Len(d.pm) = 0 /\ d.pend = None THEN d
  ELSE [d EXCEPT !.sel = None, !.legal = <<>>, !.pm = <<>>]

\* "Reset selection on position change", run when `position` changed.
resetSelectionEffect(d) ==
  IF d.sel = None /\ Len(d.legal) = 0 /\ Len(d.pm) = 0 /\ d.pend = None THEN d
  ELSE [d EXCEPT !.sel = None, !.legal = <<>>, !.pm = <<>>, !.pend = None]

\* The replay effect as it would be if it dropped the premove without
\* forwarding it.
premoveReplayEffect_dropOnly(o, cur, d) ==
  IF cur = None \/ ~premovableEnabled(o) THEN d
  ELSE LET from == cur[1][1]
           ps == piecesOf(o)
       IN IF Has(ps, from) /\ ps[from].color = o.turnColor
          THEN Log([d EXCEPT !.cur = None], E("premovable.events.unset", <<>>))
          ELSE d

\* "Apply premove when turn changes", run with the props o of the render
\* and the premoveCurrent cur of that render.
premoveReplayEffect(o, cur, d) ==
  IF cur = None \/ ~premovableEnabled(o) THEN d
  ELSE LET from == cur[1][1]
           to == cur[1][2]
           ps == piecesOf(o)
       IN IF Has(ps, from) /\ ps[from].color = o.turnColor
          THEN LET dU == Log([d EXCEPT !.cur = None],
                             E("premovable.events.unset", <<>>))
               IN IF Includes(destsGet(o, from), to) \/ o.dests = None
                  THEN IF o.onMove
                       THEN Log(Log(dU, E("premoveReplay", <<from, to>>)),
                                E("onMove", <<from, to, "">>))
                       ELSE dU
                  ELSE dU
          ELSE d

\* "Sync external premove.current"
syncPremoveEffect(o, d) ==
  IF o.premovable # None /\ o.premovable[1].current # None
  THEN [d EXCEPT !.cur = o.premovable[1].current, !.curW = TRUE]
  ELSE d

\* The render after a handler: the replay effect runs if premoveCurrent
\* changed.
afterHandler(d) ==
  IF d.cur # premoveCurrent \/ d.curW
  THEN premoveReplayEffect(opts, d.cur, d) ELSE d

\* Commit a draft to the React state and refs it covers.
Commit(d) ==
  /\ selectedSquare' = d.sel
  /\ legalSquares' = d.legal
  /\ premoveSquares' = d.pm
  /\ premoveCurrent' = d.cur
  /\ pendingPromotion' = d.pend
  /\ internalArrowsMap' = d.am
  /\ internalMarksMap' = d.mm
  /\ justDrewArrowRef' = d.jd
  /\ log' = d.log
  /\ UNCHANGED animVars

\* ------------------------------------------------------------------------
\* Pointer handlers
\* ------------------------------------------------------------------------
squareAt(pos) ==
  screenPos2square(pos[1], pos[2], asWhite, opts.boardBounds[1])

canDragFrom(sq) ==
  /\ Has(pieces, sq) /\ opts.interactive /\ opts.allowDragging
  /\ canMoveColor(pieces[sq].color) \/ canPremoveColor(pieces[sq].color)

\* handlePointerDown as it would be without the pending-promotion guard.
handlePointerDown_noModalGuard(kind, pos, mods, ok) ==
  LET d0 == Log(Draft, E("handlePointerDown", <<button(kind), pos>>))
      sq == squareAt(pos)
      refsSame == UNCHANGED << drag, dragRef, arrowStartRef, arrowColorRef,
                               arrowPosRef, dragKeyChangedRef, travelled >>
  IN /\ UNCHANGED << opts, timers >>
     /\ IF opts.boardBounds = None \/ sq = None
        THEN Commit(d0) /\ refsSame
        ELSE IF isRightButton(kind)
        THEN /\ Commit(d0)
             /\ UNCHANGED << drag, dragRef, dragKeyChangedRef, travelled >>
             /\ IF opts.allowDrawingArrows
                THEN /\ arrowStartRef' = sq
                     /\ arrowColorRef' = eventBrushColor(kind, mods)
                     /\ arrowPosRef' = Some(pos)
                ELSE UNCHANGED << arrowStartRef, arrowColorRef, arrowPosRef >>
        ELSE IF canDragFrom(sq)
        THEN LET newDrag == [origSquare |-> sq, piece |-> pieces[sq],
                             startPos |-> pos, currentPos |-> pos,
                             started |-> FALSE]
             IN /\ Commit(d0)
                /\ dragKeyChangedRef' = FALSE
                /\ dragRef' = Some(newDrag)
                /\ drag' = Some(newDrag)
                /\ travelled' = FALSE
                /\ UNCHANGED << arrowStartRef, arrowColorRef, arrowPosRef >>
        ELSE /\ Commit(afterHandler(handleSquareInteraction(d0, sq, ok)))
             /\ refsSame

handlePointerDown(kind, pos, mods, ok) ==
  LET d0 == Log(Draft, E("handlePointerDown", <<button(kind), pos>>))
      sq == squareAt(pos)
      refsSame == UNCHANGED << drag, dragRef, arrowStartRef, arrowColorRef,
                               arrowPosRef, dragKeyChangedRef, travelled >>
  IN /\ UNCHANGED << opts, timers >>
     /\ IF opts.boardBounds = None \/ pendingPromotion # None \/ sq = None
        THEN Commit(d0) /\ refsSame
        ELSE IF isRightButton(kind)
        THEN /\ Commit(d0)
             /\ UNCHANGED << drag, dragRef, dragKeyChangedRef, travelled >>
             /\ IF opts.allowDrawingArrows
                THEN /\ arrowStartRef' = sq
                     /\ arrowColorRef' = eventBrushColor(kind, mods)
                     /\ arrowPosRef' = Some(pos)
                ELSE UNCHANGED << arrowStartRef, arrowColorRef, arrowPosRef >>
        ELSE IF canDragFrom(sq)
        THEN LET newDrag == [origSquare |-> sq, piece |-> pieces[sq],
                             startPos |-> pos, currentPos |-> pos,
                             started |-> FALSE]
             IN /\ Commit(d0)
                /\ dragKeyChangedRef' = FALSE
                /\ dragRef' = Some(newDrag)
                /\ drag' = Some(newDrag)
                /\ travelled' = FALSE
                /\ UNCHANGED << arrowStartRef, arrowColorRef, arrowPosRef >>
        ELSE /\ Commit(afterHandler(handleSquareInteraction(d0, sq, ok)))
             /\ refsSame

PointerDownOf(kinds, points) ==
  \E kind \in kinds, pos \in points, mods \in ModifierInputs, ok \in BOOLEAN :
    handlePointerDown(kind, pos, mods, ok)

PointerDown == PointerDownOf(PrimaryKinds, Points)

\* Two points DRAG_THRESHOLD px or more apart.
Far(p, q) ==
  (q[1] - p[1]) * (q[1] - p[1]) + (q[2] - p[2]) * (q[2] - p[2])
    >= DRAG_THRESHOLD * DRAG_THRESHOLD

\* The selection a drag shows once it has started (handleMove, second half).
dragStartSelection(d, sq) ==
  IF ~Has(pieces, sq) THEN d
  ELSE LET piece == pieces[sq]
           targets == getDestsForSquare(sq)
           pmTargets == premoveDests(sq, pieces, piece.color)
       IN IF canMoveColor(piece.color) /\ (Len(targets) > 0 \/ opts.dests = None)
          THEN [d EXCEPT !.sel = sq, !.legal = targets, !.pm = <<>>]
          ELSE IF canPremoveColor(piece.color) /\ Len(pmTargets) > 0
          THEN [d EXCEPT !.sel = sq, !.legal = <<>>, !.pm = pmTargets]
          ELSE d

handleMove(pos) ==
  LET d0 == Draft
  IN /\ UNCHANGED << opts, timers, arrowStartRef, arrowColorRef >>
     /\ arrowPosRef' = IF arrowStartRef # None THEN Some(pos) ELSE arrowPosRef
     /\ IF dragRef = None
        THEN Commit(d0) /\ UNCHANGED << drag, dragRef, dragKeyChangedRef, travelled >>
        ELSE LET moved == [dragRef[1] EXCEPT !.currentPos = pos]
                 starts == ~moved.started /\ hasDragStarted(moved)
                 cur == [moved EXCEPT !.started = @ \/ starts]
                 currentSq == squareAt(pos)
             IN /\ dragRef' = Some(cur)
                /\ travelled' = (travelled \/ Far(moved.startPos, pos))
                \* before the drag starts the state holds the very object
                \* the ref holds; setDrag({...}) stores a copy at the start
                /\ drag' = IF starts \/ ~cur.started THEN Some(cur) ELSE drag
                /\ dragKeyChangedRef' =
                     IF /\ cur.started /\ opts.boardBounds # None
                        /\ currentSq # None /\ currentSq # cur.origSquare
                     THEN TRUE ELSE dragKeyChangedRef
                /\ Commit(IF starts THEN dragStartSelection(d0, cur.origSquare)
                          ELSE d0)

PointerMoveOf(points) == \E pos \in points : handleMove(pos)

PointerMove == PointerMoveOf(Points)

\* The microtask as it would be without the clearing of a cancelled drag.
dragRelease_keepsSelection(d, captured, pos, ok) ==
  IF captured = None \/ opts.boardBounds = None \/ ~opts.interactive THEN d
  ELSE LET orig == captured[1].origSquare
           target == squareAt(pos)
           dR == Log(d, E("dragRelease", <<orig, target, pos>>))
       IN IF target # None /\ target # orig
          THEN IF ~Has(pieces, orig) THEN dR
               ELSE LET color == pieces[orig].color
                        m == IF canMoveColor(color)
                             THEN attemptMove(dR, orig, target, "", ok)
                             ELSE [res |-> "false", d |-> dR]
                    IN IF m.res # "false" THEN m.d
                       ELSE IF /\ canPremoveColor(color)
                               /\ Includes(premoveDests(orig, pieces, color), target)
                       THEN attemptPremove(m.d, orig, target)
                       ELSE m.d
          ELSE dR

\* The microtask queued by handleUp for a drag that was not a click.
dragRelease(d, captured, pos, ok) ==
  IF captured = None \/ opts.boardBounds = None \/ ~opts.interactive THEN d
  ELSE LET orig == captured[1].origSquare
           target == squareAt(pos)
           dR == Log(d, E("dragRelease", <<orig, target, pos>>))
       IN IF target # None /\ target # orig
          THEN IF ~Has(pieces, orig) THEN dR
               ELSE LET color == pieces[orig].color
                        m == IF canMoveColor(color)
                             THEN attemptMove(dR, orig, target, "", ok)
                             ELSE [res |-> "false", d |-> dR]
                    IN IF m.res # "false" THEN m.d
                       ELSE IF /\ canPremoveColor(color)
                               /\ Includes(premoveDests(orig, pieces, color), target)
                       THEN attemptPremove(m.d, orig, target)
                       ELSE m.d
          ELSE IF dragKeyChangedRef
          THEN [dR EXCEPT !.sel = None, !.legal = <<>>, !.pm = <<>>]
          ELSE dR

\* Arrow drawing end as it would be if a release on the origin square were
\* not told apart from a release on another square.
arrowRelease_noMarkBranch(d, pos) ==
  LET startSq == arrowStartRef
      p == IF arrowPosRef # None THEN arrowPosRef[1] ELSE pos
      rawSq == squareAt(p)
      dA == Log(d, E("arrowRelease", <<startSq, p, pos>>))
  IN [d |-> [toggleArrow(dA, startSq, IF rawSq = None THEN startSq ELSE rawSq,
                         arrowColorRef) EXCEPT !.jd = TRUE],
      timer |-> TRUE]

\* Arrow drawing end (right button released with an arrow start).  The log
\* entry carries the origin, the position the code resolves (the last
\* tracked one, else the event's) and the event's position.
arrowRelease(d, pos) ==
  LET startSq == arrowStartRef
      color == arrowColorRef
      p == IF arrowPosRef # None THEN arrowPosRef[1] ELSE pos
      rawSq == squareAt(p)
      dA == Log(d, E("arrowRelease", <<startSq, p, pos>>))
      \* toggleArrow; justDrewArrowRef.current = true; setTimeout(...)
      drew(dd) == [d |-> [dd EXCEPT !.jd = TRUE], timer |-> TRUE]
      quiet(dd) == [d |-> dd, timer |-> FALSE]
  IN IF rawSq = startSq \/ rawSq = None THEN quiet(toggleMark(dA, startSq))
     ELSE IF opts.snapArrowsToValidMoves
     THEN LET snapped == getSnappedSquare(startSq, p[1], p[2])
          IN IF snapped # None /\ snapped # startSq
             THEN drew(toggleArrow(dA, startSq, snapped, color))
             ELSE quiet(dA)
     ELSE drew(toggleArrow(dA, startSq, rawSq, color))

\* The pointer has moved since the press that armed the drag (logged with
\* each release).
pointerMoved == dragRef # None /\ dragRef[1].currentPos # dragRef[1].startPos

\* handleUp as it would be if a release that resolves as a click returned
\* before the drag is dropped.
handleUp_clickKeepsDrag(kind, pos, ok) ==
  LET d0 == Log(Draft, E("handleUp", <<button(kind), pointerMoved>>))
  IN /\ UNCHANGED << opts, arrowColorRef, dragKeyChangedRef >>
     /\ IF isRightButton(kind) /\ arrowStartRef # None /\ opts.boardBounds # None
        THEN LET a == arrowRelease(d0, pos)
             IN /\ a.timer => timers < MaxTimers
                /\ timers' = IF a.timer THEN timers + 1 ELSE timers
                /\ arrowStartRef' = None
                /\ arrowPosRef' = None
                /\ Commit(a.d)
                /\ UNCHANGED << drag, dragRef, travelled >>
        ELSE /\ UNCHANGED << timers, arrowStartRef, arrowPosRef >>
             /\ IF dragRef # None /\ ~dragRef[1].started
                THEN /\ UNCHANGED << drag, dragRef, travelled >>
                     /\ Commit(afterHandler(
                          handleSquareInteraction(d0, dragRef[1].origSquare, ok)))
                ELSE /\ drag' = None
                     /\ dragRef' = None
                     /\ travelled' = FALSE
                     /\ Commit(afterHandler(dragRelease(d0, dragRef, pos, ok)))

handleUp(kind, pos, ok) ==
  LET d0 == Log(Draft, E("handleUp", <<button(kind), pointerMoved>>))
  IN /\ UNCHANGED << opts, arrowColorRef, dragKeyChangedRef >>
     /\ IF isRightButton(kind) /\ arrowStartRef # None /\ opts.boardBounds # None
        THEN LET a == arrowRelease(d0, pos)
             IN /\ a.timer => timers < MaxTimers
                /\ timers' = IF a.timer THEN timers + 1 ELSE timers
                /\ arrowStartRef' = None
                /\ arrowPosRef' = None
                /\ Commit(a.d)
                /\ UNCHANGED << drag, dragRef, travelled >>
        ELSE /\ drag' = None
             /\ dragRef' = None
             /\ travelled' = FALSE
             /\ UNCHANGED << timers, arrowStartRef, arrowPosRef >>
             /\ IF dragRef # None /\ ~dragRef[1].started
                THEN Commit(afterHandler(
                       handleSquareInteraction(d0, dragRef[1].origSquare, ok)))
                ELSE Commit(afterHandler(dragRelease(d0, dragRef, pos, ok)))

PointerUpOf(kinds, points) ==
  \E kind \in kinds, pos \in points, ok \in BOOLEAN : handleUp(kind, pos, ok)

PointerUp == PointerUpOf(PrimaryKinds, Points)

\* setTimeout(() => { justDrewArrowRef.current = false; }, 150)
JustDrewTimeout ==
  /\ timers > 0
  /\ timers' = timers - 1
  /\ justDrewArrowRef' = FALSE
  /\ log' = << E("justDrewTimeout", <<>>) >>
  /\ UNCHANGED animVars
  /\ UNCHANGED << opts, selectedSquare, legalSquares, premoveSquares,
                  premoveCurrent, pendingPromotion, drag, dragRef,
                  arrowStartRef, arrowColorRef, arrowPosRef, dragKeyChangedRef,
                  internalArrowsMap, internalMarksMap, travelled >>

\* What the hook returns as `drag`: drag?.started ? drag : null
exposedDrag == IF drag # None /\ drag[1].started THEN drag ELSE None

\* ------------------------------------------------------------------------
\* Promotion dialog, deselect
\* ------------------------------------------------------------------------
refsUnchanged ==
  UNCHANGED << drag, dragRef, arrowStartRef, arrowColorRef, arrowPosRef,
               dragKeyChangedRef, timers, travelled >>

handlePromotionSelect(piece, ok) ==
  LET d0 == Log(Draft, E("handlePromotionSelect", <<piece>>))
  IN /\ UNCHANGED opts
     /\ refsUnchanged
     /\ IF pendingPromotion = None THEN Commit(d0)
        ELSE Commit(attemptMove([d0 EXCEPT !.pend = None],
                                pendingPromotion[1].from, pendingPromotion[1].to,
                                piece, ok).d)

PromotionSelect ==
  \E piece \in PromotionPieces, ok \in BOOLEAN :
    \* the dialog is mounted only while a promotion is pending
    pendingPromotion # None /\ handlePromotionSelect(piece, ok)

handlePromotionDismiss ==
  /\ pendingPromotion # None
  /\ UNCHANGED opts
  /\ refsUnchanged
  /\ Commit(clearSelection(Log(Draft, E("handlePromotionDismiss", <<>>))))

\* Escape: ChessiroCanvas.handleDeselect -> interaction.clearSelection()
handleDeselect ==
  /\ UNCHANGED opts
  /\ refsUnchanged
  /\ Commit(clearSelection(Log(Draft, E("handleDeselect", <<>>))))

\* ------------------------------------------------------------------------
\* The host
\* ------------------------------------------------------------------------
\* useBoardSize measures the board: boardBounds becomes available.
BoardMeasured ==
  /\ opts.boardBounds = None
  /\ opts' = [opts EXCEPT !.boardBounds = Some(BoardRect)]
  /\ log' = << E("boardMeasured", <<>>) >>
  /\ UNCHANGED animVars
  /\ UNCHANGED << selectedSquare, legalSquares, premoveSquares, premoveCurrent,
                  pendingPromotion, drag, dragRef, arrowStartRef, arrowColorRef,
                  arrowPosRef, justDrewArrowRef, dragKeyChangedRef,
                  internalArrowsMap, internalMarksMap, timers, travelled >>

\* The host renders the board with new props.  fresh: the render passes new
\* object identities for onMove and premovable (inline literals).
hostRender(o, fresh) ==
  LET d0 == Draft
      dR == IF o.position # opts.position THEN resetSelectionEffect(d0) ELSE d0
      replayDeps == \/ o.turnColor # opts.turnColor \/ o.dests # opts.dests
                    \/ o.premovable # opts.premovable \/ fresh
      dP == IF replayDeps THEN premoveReplayEffect(o, premoveCurrent, dR) ELSE dR
      syncDeps == \/ o.premovable # opts.premovable
                  \/ fresh /\ o.premovable # None /\ o.premovable[1].current # None
      dS == IF syncDeps THEN syncPremoveEffect(o, dP) ELSE dP
      \* second render, if premoveCurrent changed
      dF == IF dS.cur # premoveCurrent \/ dS.curW
            THEN premoveReplayEffect(o, dS.cur, dS) ELSE dS
  IN /\ (o # opts \/ fresh)
     /\ opts' = o
     /\ refsUnchanged
     /\ Commit(dF)

\* One render changes the position, the turn and the table together (in any
\* combination), or the interactive flag (a host with nothing switched off
\* only), or nothing but identities.  A turn-aware host stays turn-aware.
HostRender ==
  \/ \E pos \in 1..Len(Fens), turn \in TurnInputs, dests \in DestsInputs :
       /\ (turn = "none") <=> (opts.turnColor = "none")
       /\ hostRender([opts EXCEPT !.position = pos, !.turnColor = turn,
                                  !.dests = dests], FALSE)
  \/ /\ opts.allowDragging /\ opts.onMove
     /\ (opts.turnColor = "none") = (opts.premovable = None)
     /\ hostRender([opts EXCEPT !.interactive = ~@], FALSE)
  \/ hostRender(opts, TRUE)

\* ------------------------------------------------------------------------
\* Specification
\* ------------------------------------------------------------------------
\* The hosts of the model: a free-mode host (no turn, no movable colour, no
\* premoves), or a turn-aware host playing one colour, the board turned to
\* that colour's side, with premoves enabled; at most one of onMove, dragging
\* and premoves is switched off.
OptsFields ==
  [position : {1}, orientation : {"white", "black"}, interactive : {TRUE},
   allowDragging : BOOLEAN, allowDrawingArrows : {TRUE},
   boardBounds : {None}, onMove : BOOLEAN, dests : {None},
   turnColor : TurnInputs, movableColor : MovableInputs,
   premovable : PremovableInputs,
   arrows : {<<>>}, onArrowsChange : {FALSE}, snapArrowsToValidMoves : {TRUE},
   markedSquares : {None}, onMarkedSquaresChange : {FALSE},
   plyIndex : {None}, plyArrows : {None}, onPlyArrowsChange : {FALSE},
   plyMarks : {None}, onPlyMarksChange : {FALSE}]

InitOpts ==
  { o \in OptsFields :
    /\ (o.turnColor = "none") <=> (o.movableColor = "none")
    /\ IF o.turnColor = "none"
       THEN o.premovable = None /\ (o.allowDragging \/ o.onMove)
       ELSE /\ (o.movableColor = "w") <=> (o.orientation = "white")
            /\ Cardinality({ x \in {1, 2, 3} :
                               \/ x = 1 /\ ~o.allowDragging
                               \/ x = 2 /\ ~o.onMove
                               \/ x = 3 /\ o.premovable = None }) <= 1 }

\* The placement of the starting position, a character at a time.
INITIAL_FEN ==
  << "r", "n", "b", "q", "k", "b", "n", "r", "/",
     "p", "p", "p", "p", "p", "p", "p", "p", "/",
     "8", "/", "8", "/", "8", "/", "8", "/",
     "P", "P", "P", "P", "P", "P", "P", "P", "/",
     "R", "N", "B", "Q", "K", "B", "N", "R" >>

InitRefs ==
  /\ selectedSquare = None
  /\ legalSquares = <<>>
  /\ premoveSquares = <<>>
  /\ premoveCurrent = None
  /\ pendingPromotion = None
  /\ drag = None
  /\ dragRef = None
  /\ arrowStartRef = None
  /\ arrowColorRef = "green"
  /\ arrowPosRef = None
  /\ justDrewArrowRef = FALSE
  /\ dragKeyChangedRef = FALSE
  /\ internalArrowsMap = <<>>
  /\ internalMarksMap = <<>>
  /\ timers = 0
  /\ travelled = FALSE
  /\ log = <<>>
  /\ now = 0
  /\ rafQueue = {}
  /\ animRef = None
  /\ rafIdRef = None
  /\ controllerCurrent = None
  /\ controllerRafId = None
  /\ planCount = 0
  /\ skipNextAnimRef = FALSE
  /\ prevDraggingRef = None
  /\ sinceDragEnd = None

\* positionHistory after the first render, with the position prop it had.
FirstPosition(position) ==
  positionHistory = [prev |-> position, last |-> position]

InitState ==
  /\ InitRefs
  /\ FirstPosition(INITIAL_FEN)
  /\ callArgs = None
  /\ callResult = None

Init == opts \in InitOpts /\ InitState

Next ==
  \/ PointerDown
  \/ PointerMove
  \/ PointerUp
  \/ PromotionSelect
  \/ handlePromotionDismiss
  \/ handleDeselect
  \/ BoardMeasured
  \/ HostRender

Spec == Init /\ [][Next]_vars

\* The same board under the mouse, right button included (arrows and marks),
\* with a host that keeps its props and has everything switched on: a
\* free-mode host, or a host playing white while it is black's turn (premoves
\* enabled); the pointer visits the two cell centres.
InitArrows ==
  /\ opts \in { [o EXCEPT !.premovable = Some([enabled |-> TRUE, current |-> None])] :
                o \in { h \in InitOpts : /\ h.turnColor \in {"none", "b"}
                                         /\ h.orientation = "white"
                                         /\ h.allowDragging /\ h.onMove
                                         /\ (h.turnColor = "b" => h.premovable # None) } }
  /\ InitState

PointerDownAny == PointerDownOf(MouseKinds, CentrePoints)

PointerMoveCentres == PointerMoveOf(CentrePoints)

PointerUpAny == PointerUpOf(MouseKinds, CentrePoints)

NextArrows ==
  \/ PointerDownAny
  \/ PointerMoveCentres
  \/ PointerUpAny
  \/ PromotionSelect
  \/ handlePromotionDismiss
  \/ JustDrewTimeout
  \/ BoardMeasured

SpecArrows == InitArrows /\ [][NextArrows]_vars

\* ------------------------------------------------------------------------
\* Overlay stores: hosts that control arrows and marks from outside
\* ------------------------------------------------------------------------
\* An arrow the host already shows.
HostArrow == [startSquare |-> SqE7, endSquare |-> SqE8, color |-> "green"]

\* Free-mode hosts without dragging that supply, in any combination, the
\* global arrows control (arrows + onArrowsChange), the global marks control
\* (markedSquares + onMarkedSquaresChange) and the per-index controls
\* (plyIndex, plyArrows + onPlyArrowsChange, plyMarks + onPlyMarksChange).
OverlayHosts ==
  { [o EXCEPT !.arrows = IF ga THEN << HostArrow >> ELSE <<>>,
              !.onArrowsChange = ga,
              !.markedSquares = IF gm THEN Some(<< SqE8 >>) ELSE None,
              !.onMarkedSquaresChange = gm,
              !.plyIndex = IF p THEN Some(1) ELSE None,
              !.plyArrows = IF p THEN Some([k \in {1} |-> << HostArrow >>]) ELSE None,
              !.onPlyArrowsChange = p,
              !.plyMarks = IF p THEN Some([k \in {1} |-> << SqE7 >>]) ELSE None,
              !.onPlyMarksChange = p] :
    ga \in BOOLEAN, gm \in BOOLEAN, p \in BOOLEAN,
    o \in { h \in InitOpts : /\ h.turnColor = "none" /\ h.orientation = "white"
                             /\ ~h.allowDragging } }

InitOverlays == opts \in OverlayHosts /\ InitState

NextOverlays ==
  \/ PointerDownAny
  \/ PointerMoveCentres
  \/ PointerUpAny
  \/ JustDrewTimeout
  \/ BoardMeasured

SpecOverlays == InitOverlays /\ [][NextOverlays]_vars

\* Hosts that supply the overlay inputs one by one: for the arrows any
\* combination of onArrowsChange (with arrows), plyArrows and
\* onPlyArrowsChange while the marks are left to the board, or for the marks
\* any combination of markedSquares, onMarkedSquaresChange, plyMarks and
\* onPlyMarksChange while the arrows are left to the board; each with and
\* without plyIndex.
OverlayInputHosts ==
  { [o EXCEPT !.arrows = IF ga THEN << HostArrow >> ELSE <<>>,
              !.onArrowsChange = ga,
              !.plyArrows = IF pa THEN Some([k \in {1} |-> << HostArrow >>]) ELSE None,
              !.onPlyArrowsChange = pac,
              !.markedSquares = IF gm THEN Some(<< SqE8 >>) ELSE None,
              !.onMarkedSquaresChange = gmc,
              !.plyMarks = IF pm THEN Some([k \in {1} |-> << SqE7 >>]) ELSE None,
              !.onPlyMarksChange = pmc,
              !.plyIndex = IF pi THEN Some(1) ELSE None] :
    ga \in BOOLEAN, pa \in BOOLEAN, pac \in BOOLEAN,
    gm \in BOOLEAN, gmc \in BOOLEAN, pm \in BOOLEAN, pmc \in BOOLEAN,
    pi \in BOOLEAN,
    o \in { h \in InitOpts : /\ h.turnColor = "none" /\ h.orientation = "white"
                             /\ ~h.allowDragging } }

InitOverlayInputs ==
  /\ opts \in { o \in OverlayInputHosts :
                  \/ (~o.onArrowsChange /\ o.plyArrows = None
                      /\ ~o.onPlyArrowsChange)
                  \/ (o.markedSquares = None /\ ~o.onMarkedSquaresChange
                      /\ o.plyMarks = None /\ ~o.onPlyMarksChange) }
  /\ InitState

SpecOverlayInputs == InitOverlayInputs /\ [][NextOverlays]_vars

\* The move indices the host goes through.
PlyIndices == {1, 2}

\* Hosts that pass a move index: one that leaves the arrows to the board and
\* controls the marks itself, one that leaves the marks to the board and
\* controls the arrows itself, and one that keeps both per move index
\* (plyArrows, plyMarks and their callbacks).
PlyHosts ==
  { [o EXCEPT !.plyIndex = Some(1),
              !.arrows = IF k = "marks" THEN << HostArrow >> ELSE <<>>,
              !.onArrowsChange = (k = "marks"),
              !.markedSquares = IF k = "arrows" THEN Some(<< SqE8 >>) ELSE None,
              !.onMarkedSquaresChange = (k = "arrows"),
              !.plyArrows = IF k = "host"
                            THEN Some((1 :> << HostArrow >>) @@ (2 :> <<>>))
                            ELSE None,
              !.onPlyArrowsChange = (k = "host"),
              !.plyMarks = IF k = "host"
                           THEN Some((1 :> << SqE7 >>) @@ (2 :> << SqE8 >>))
                           ELSE None,
              !.onPlyMarksChange = (k = "host")] :
    k \in {"arrows", "marks", "host"},
    o \in { h \in InitOpts : /\ h.turnColor = "none" /\ h.orientation = "white"
                             /\ ~h.allowDragging } }

\* The host renders the board at a later move index.
PlyAdvance ==
  \E j \in PlyIndices :
    /\ opts.plyIndex # None /\ j > opts.plyIndex[1]
    /\ hostRender([opts EXCEPT !.plyIndex = Some(j)], FALSE)

InitPly == opts \in PlyHosts /\ InitState

NextPly ==
  \/ PointerDownAny
  \/ PointerMoveCentres
  \/ PointerUpAny
  \/ JustDrewTimeout
  \/ BoardMeasured
  \/ PlyAdvance

SpecPly == InitPly /\ [][NextPly]_vars

\* ------------------------------------------------------------------------
\* Animation tick chains: PiecesLayer and createAnimationController
\* ------------------------------------------------------------------------
\* Plans installed in one behaviour, and the last clock value.
MaxPlans == 3

MaxTime == 6

\* animationDurationMs, in clock units.
AnimationDurations == {2, 3}

\* Ids requestAnimationFrame hands out (never one that is still pending).
RafIds == 1..(MaxPlans + 3)

interactionVars ==
  << opts, selectedSquare, legalSquares, premoveSquares, premoveCurrent,
     pendingPromotion, drag, dragRef, arrowStartRef, arrowColorRef,
     arrowPosRef, justDrewArrowRef, dragKeyChangedRef, internalArrowsMap,
     internalMarksMap, timers, travelled, callVars, layerVars >>

\* requestAnimationFrame(fn): the callback joins the queue under a new id.
\* Each entry remembers the plan that was installed when it was requested.
requestAnimationFrame(q, fn, id, plan) ==
  q \cup { [fn |-> fn, id |-> id, plan |-> plan] }

rafId(q, fn) == CHOOSE n \in RafIds : \A e \in q : e.fn = fn => e.id # n

cancelAnimationFrame(q, fn, id) == { e \in q : ~(e.fn = fn /\ e.id = id) }

Pending(fn) == { e \in rafQueue : e.fn = fn }

\* rest = 1 - elapsed * frequency, times the duration
rest(a, t) == a.duration - (t - a.startTime)

\* applyTransforms as it would be if it never dropped the animation.
applyTransforms_keeps(a, t) == a

\* applyTransforms: what animRef.current is afterwards (`rest <= 0` drops the
\* animation); the piece transforms it writes are not part of the state.
applyTransforms(a, t) ==
  IF a # None /\ rest(a[1], t) <= 0 THEN None ELSE a

PlanOf(a) == IF a = None THEN 0 ELSE a[1].plan

\* The layout effect as it would be without the cancellation of the running
\* loop.
layoutEffect_noCancel(plan) ==
  LET a1 == IF plan # None
            THEN Some([plan |-> plan[1].plan, startTime |-> now,
                       duration |-> plan[1].duration])
            ELSE animRef
      a2 == applyTransforms(a1, now)
      id == rafId(rafQueue, "animLoop")
  IN /\ animRef' = a2
     /\ rafIdRef' = IF a2 # None THEN Some(id) ELSE rafIdRef
     /\ rafQueue' = IF a2 # None
                    THEN requestAnimationFrame(rafQueue, "animLoop", id, PlanOf(a2))
                    ELSE rafQueue
     /\ log' = << E("useLayoutEffect", << PlanOf(plan), PlanOf(animRef),
                                          Cardinality(Pending("animLoop")) >>) >>

\* useLayoutEffect of PiecesLayer, run after every render; plan is
\* pendingPlanRef.current (the plan computed by the render, or none).  The
\* log entry carries the new plan, the plan installed before, and the number
\* of ticks that were pending.
layoutEffect(plan) ==
  LET q1 == IF rafIdRef # None
            THEN cancelAnimationFrame(rafQueue, "animLoop", rafIdRef[1])
            ELSE rafQueue
      a1 == IF plan # None
            THEN Some([plan |-> plan[1].plan, startTime |-> now,
                       duration |-> plan[1].duration])
            ELSE animRef
      a2 == applyTransforms(a1, now)
      id == rafId(q1, "animLoop")
  IN /\ animRef' = a2
     /\ rafIdRef' = IF a2 # None THEN Some(id) ELSE None
     /\ rafQueue' = IF a2 # None
                    THEN requestAnimationFrame(q1, "animLoop", id, PlanOf(a2))
                    ELSE q1
     /\ log' = << E("useLayoutEffect", << PlanOf(plan), PlanOf(animRef),
                                          Cardinality(Pending("animLoop")) >>) >>

\* A render of PiecesLayer: with a new position that gives a plan to animate
\* (animations shown, duration of 50 ms or more, something moves), or with
\* none.  A plan is only installed while the clock can still run through it.
PiecesRender ==
  /\ \E withPlan \in BOOLEAN, d \in AnimationDurations :
       /\ withPlan => planCount < MaxPlans /\ now + d <= MaxTime
       /\ planCount' = IF withPlan THEN planCount + 1 ELSE planCount
       /\ layoutEffect(IF withPlan
                       THEN Some([plan |-> planCount + 1, duration |-> d])
                       ELSE None)
  /\ UNCHANGED << interactionVars, now, controllerCurrent, controllerRafId >>

\* animLoop, run by the browser for a pending request.  The log entry
\* carries the plan the request was made under, the plan installed when it
\* runs, and rest (0 when nothing is installed).
animLoop(e) ==
  LET q1 == rafQueue \ {e}
      a2 == applyTransforms(animRef, now)
      id == rafId(q1, "animLoop")
  IN /\ animRef' = a2
     /\ rafIdRef' = IF a2 # None THEN Some(id) ELSE None
     /\ rafQueue' = IF a2 # None
                    THEN requestAnimationFrame(q1, "animLoop", id, PlanOf(a2))
                    ELSE q1
     /\ log' = << E("animLoop", << e.plan, PlanOf(animRef),
                                   IF animRef = None THEN 0
                                   ELSE rest(animRef[1], now) >>) >>

AnimLoopTick ==
  /\ \E e \in Pending("animLoop") : animLoop(e)
  /\ UNCHANGED << interactionVars, now, controllerCurrent, controllerRafId,
                  planCount >>

\* start(plan, durationMs) of the controller, as its caller uses it: only
\* with a plan that has something to animate.
startPlan(plan, durationMs) ==
  LET q1 == IF controllerRafId # None
            THEN cancelAnimationFrame(rafQueue, "step", controllerRafId[1])
            ELSE rafQueue
      id == rafId(q1, "step")
  IN /\ controllerCurrent' = Some([plan |-> plan, startTime |-> now,
                                   duration |-> durationMs])
     /\ controllerRafId' = Some(id)
     /\ rafQueue' = requestAnimationFrame(q1, "step", id, plan)
     /\ log' = << E("start", << plan, PlanOf(controllerCurrent),
                                Cardinality(Pending("step")) >>) >>

ControllerStart ==
  /\ \E d \in AnimationDurations :
       /\ planCount < MaxPlans /\ now + d <= MaxTime
       /\ planCount' = planCount + 1
       /\ startPlan(planCount + 1, d)
  /\ UNCHANGED << interactionVars, now, animRef, rafIdRef >>

\* step(now) of the controller, run by the browser for a pending request.
step(e) ==
  LET q1 == rafQueue \ {e}
      entry == E("step", << e.plan, PlanOf(controllerCurrent),
                            IF controllerCurrent = None THEN 0
                            ELSE rest(controllerCurrent[1], now) >>)
      id == rafId(q1, "step")
  IN IF controllerCurrent = None
     THEN /\ rafQueue' = q1
          /\ log' = << entry, E("onComplete", <<>>) >>
          /\ UNCHANGED << controllerCurrent, controllerRafId >>
     ELSE IF rest(controllerCurrent[1], now) <= 0
     THEN /\ controllerCurrent' = None
          /\ rafQueue' = q1
          /\ log' = << entry, E("onComplete", <<>>) >>
          /\ UNCHANGED controllerRafId
     ELSE /\ controllerRafId' = Some(id)
          /\ rafQueue' = requestAnimationFrame(q1, "step", id,
                                               PlanOf(controllerCurrent))
          /\ log' = << entry, E("onFrame", <<>>) >>
          /\ UNCHANGED controllerCurrent

StepTick ==
  /\ \E e \in Pending("step") : step(e)
  /\ UNCHANGED << interactionVars, now, animRef, rafIdRef, planCount >>

\* performance.now() moves on.
ClockAdvances ==
  /\ now < MaxTime
  /\ now' = now + 1
  /\ log' = <<>>
  /\ UNCHANGED << interactionVars, rafQueue, animRef, rafIdRef,
                  controllerCurrent, controllerRafId, planCount >>

InitAnim ==
  /\ opts \in { o \in InitOpts : /\ o.turnColor = "none" /\ o.orientation = "white"
                                 /\ o.allowDragging /\ o.onMove }
  /\ InitState

NextAnim ==
  \/ PiecesRender
  \/ AnimLoopTick
  \/ ControllerStart
  \/ StepTick
  \/ ClockAdvances

SpecAnim == InitAnim /\ [][NextAnim]_vars

\* The browser runs every pending frame callback, and time passes.
FairSpecAnim ==
  /\ SpecAnim
  /\ WF_vars(AnimLoopTick)
  /\ WF_vars(StepTick)
  /\ WF_vars(ClockAdvances)

\* ------------------------------------------------------------------------
\* computeAnimPlan (animation/anim.ts)
\* ------------------------------------------------------------------------
\* samePiece as it would be if only the colour counted.
samePiece_colourOnly(a, b) == a.color = b.color

samePiece(a, b) == a.color = b.color /\ a.role = b.role

distanceSq(a, b) == (a[1] - b[1]) * (a[1] - b[1]) + (a[2] - b[2]) * (a[2] - b[2])

\* The rank of a square in ALL_SQUARES (files outside, ranks inside).
squareIndex(sq) == 8 * sq[1] + sq[2]

\* The squares of S in the order of ALL_SQUARES.
RECURSIVE inOrder(_)
inOrder(S) ==
  IF S = {} THEN <<>>
  ELSE LET first == CHOOSE x \in S : \A y \in S : squareIndex(x) <= squareIndex(y)
       IN << first >> \o inOrder(S \ {first})

\* The squares whose piece of prevPieces is gone or replaced.
missings(prevPieces, nextPieces) ==
  { sq \in DOMAIN prevPieces :
      ~Has(nextPieces, sq) \/ ~samePiece(prevPieces[sq], nextPieces[sq]) }

\* The squares whose piece of nextPieces was not there.
news(prevPieces, nextPieces) ==
  { sq \in DOMAIN nextPieces :
      ~Has(prevPieces, sq) \/ ~samePiece(prevPieces[sq], nextPieces[sq]) }

\* closest as it would be if the last of equally near candidates were taken.
closest_lastOnTie(candidates, newPos) ==
  CHOOSE c \in candidates : \A x \in candidates :
    64 * distanceSq(c, newPos) - squareIndex(c)
      <= 64 * distanceSq(x, newPos) - squareIndex(x)

\* candidates.sort(by distance)[0]: the nearest candidate, the first in
\* ALL_SQUARES order among equally near ones (the sort is stable).
closest(candidates, newPos) ==
  CHOOSE c \in candidates : \A x \in candidates :
    64 * distanceSq(c, newPos) + squareIndex(c)
      <= 64 * distanceSq(x, newPos) + squareIndex(x)

\* The vector as it would be with its two ends exchanged.
animationVector_reversed(closestSq, newSq) ==
  [fromPos |-> newSq, toPos |-> closestSq,
   currentX |-> newSq[1] - closestSq[1], currentY |-> newSq[2] - closestSq[2]]

\* { fromPos, toPos, currentX: dx, currentY: dy }
animationVector(closestSq, newSq) ==
  [fromPos |-> closestSq, toPos |-> newSq,
   currentX |-> closestSq[1] - newSq[1], currentY |-> closestSq[2] - newSq[2]]

\* The plan: anims maps a square to the motion that ends there, origins are
\* the squares the motions start from (animedOrigs), fadings maps a square to
\* the piece that fades there.
computeAnimPlan(prevPieces, nextPieces) ==
  LET miss == missings(prevPieces, nextPieces)
      newSeq == inOrder(news(prevPieces, nextPieces))
      RECURSIVE go(_, _, _)
      go(i, anims, animedOrigs) ==
        IF i > Len(newSeq) THEN [anims |-> anims, origins |-> animedOrigs]
        ELSE LET newSq == newSeq[i]
                 candidates == { m \in miss :
                                   /\ samePiece(prevPieces[m], nextPieces[newSq])
                                   /\ m \notin animedOrigs }
             IN IF candidates = {} THEN go(i + 1, anims, animedOrigs)
                ELSE LET c == closest(candidates, newSq)
                         vec == animationVector(c, newSq)
                     IN go(i + 1,
                           [x \in DOMAIN anims \cup {newSq} |->
                              IF x = newSq THEN vec ELSE anims[x]],
                           animedOrigs \cup {c})
      r == go(1, <<>>, {})
  IN [anims |-> r.anims,
      origins |-> r.origins,
      fadings |-> [sq \in miss \ r.origins |-> prevPieces[sq]]]

\* The squares and pieces the positions of the plan calls are made of.
PlanSquares == { <<0, 0>>, <<0, 2>>, <<0, 3>>, <<1, 5>> }

PlanPieces == { Piece("w", "r"), Piece("b", "r"), Piece("w", "n") }

PlanPositions ==
  UNION { [S -> PlanPieces] : S \in SUBSET PlanSquares }

\* The host of the calls of pure functions: a free-mode host, white at the
\* bottom.
PureHost ==
  CHOOSE o \in InitOpts : /\ o.turnColor = "none" /\ o.orientation = "white"
                          /\ o.allowDragging /\ o.onMove

\* A call of the pure function fn with arguments drawn from inputs is about
\* to be made.
InitCall(fn, inputs) ==
  /\ opts = PureHost
  /\ InitRefs
  /\ FirstPosition(INITIAL_FEN)
  /\ callArgs \in { Some(E(fn, x)) : x \in inputs }
  /\ callResult = None

\* The call returns value.
Returns(value) ==
  /\ callResult = None
  /\ callResult' = Some(value)
  /\ log' = <<>>
  /\ UNCHANGED << opts, selectedSquare, legalSquares, premoveSquares,
                  premoveCurrent, pendingPromotion, drag, dragRef,
                  arrowStartRef, arrowColorRef, arrowPosRef, justDrewArrowRef,
                  dragKeyChangedRef, internalArrowsMap, internalMarksMap,
                  timers, travelled, now, rafQueue, animRef, rafIdRef,
                  controllerCurrent, controllerRafId, planCount, callArgs,
                  layerVars >>

CallComputeAnimPlan ==
  Returns(computeAnimPlan(callArgs[1].args[1], callArgs[1].args[2]))

SpecPlan ==
  /\ InitCall("computeAnimPlan", PlanPositions \X PlanPositions)
  /\ [][CallComputeAnimPlan]_vars

\* Squares with equal distances between them (a1, a2, a3, b2), for the calls
\* in which several candidates are equally near.
PlanTieSquares == { <<0, 0>>, <<0, 1>>, <<0, 2>>, <<1, 1>> }

PlanTiePositions ==
  UNION { [S -> PlanPieces] : S \in SUBSET PlanTieSquares }

SpecPlanTies ==
  /\ InitCall("computeAnimPlan", PlanTiePositions \X PlanTiePositions)
  /\ [][CallComputeAnimPlan]_vars

\* ------------------------------------------------------------------------
\* Piece transforms during an animation (PiecesLayer.applyTransforms)
\* ------------------------------------------------------------------------
\* rest takes the values n / RestSteps, n in 1..RestSteps.
RestSteps == 4

\* pos2translate: the top left corner of the cell of pos, relative to the
\* board (the board's sides are multiples of 8).
\* pos2translate as it would be if the orientation were not looked at.
pos2translate_whiteOnly(pos, white, boundsWidth, boundsHeight) ==
  << pos[1] * (boundsWidth \div 8), (7 - pos[2]) * (boundsHeight \div 8) >>

pos2translate(pos, white, boundsWidth, boundsHeight) ==
  << (IF white THEN pos[1] ELSE 7 - pos[1]) * (boundsWidth \div 8),
     (IF white THEN 7 - pos[2] ELSE pos[2]) * (boundsHeight \div 8) >>

\* easing(n / d) * d^3
easing(n, d) ==
  IF 2 * n < d THEN 4 * n * n * n
  ELSE (n - d) * (2 * n - 2 * d) * (2 * n - 2 * d) + d * d * d

Clamp(lo, hi, x) == IF x < lo THEN lo ELSE IF x > hi THEN hi ELSE x

\* The transform as it would be with the offsets applied in the direction
\* of the orientation.
pieceTransform_oriented(vec, n, white, boardWidth, boardHeight) ==
  LET scale == RestSteps * RestSteps * RestSteps
      base == pos2translate(vec.toPos, white, boardWidth, boardHeight)
      sign == IF white THEN 1 ELSE -1
      ease == IF n = 0 THEN 0 ELSE easing(n, RestSteps)
  IN << Clamp(0, scale * (boardWidth - boardWidth \div 8),
              scale * base[1]
                + sign * (vec.fromPos[1] - vec.toPos[1]) * ease * (boardWidth \div 8)),
        Clamp(0, scale * (boardHeight - boardHeight \div 8),
              scale * base[2]
                - sign * (vec.fromPos[2] - vec.toPos[2]) * ease * (boardHeight \div 8)) >>

\* The translate(x, y) applyTransforms writes for the piece whose motion is
\* vec, times RestSteps^3: with rest = n / RestSteps while the animation
\* runs, and n = 0 once it is dropped (no offset).
pieceTransform(vec, n, white, boardWidth, boardHeight) ==
  LET scale == RestSteps * RestSteps * RestSteps
      base == pos2translate(vec.toPos, white, boardWidth, boardHeight)
      ease == IF n = 0 THEN 0 ELSE easing(n, RestSteps)
  IN << Clamp(0, scale * (boardWidth - boardWidth \div 8),
              scale * base[1]
                + (vec.fromPos[1] - vec.toPos[1]) * ease * (boardWidth \div 8)),
        Clamp(0, scale * (boardHeight - boardHeight \div 8),
              scale * base[2]
                - (vec.fromPos[2] - vec.toPos[2]) * ease * (boardHeight \div 8)) >>

\* The motions, orientations and values of rest the transform is computed
\* for.
TransformInputs ==
  { << animationVector(a, b), n, white >> :
      a \in Squares, b \in Squares, n \in 0..RestSteps, white \in BOOLEAN }

CallPieceTransform ==
  Returns(pieceTransform(callArgs[1].args[1], callArgs[1].args[2],
                         callArgs[1].args[3], BoardRect.width, BoardRect.height))

SpecTransform ==
  /\ InitCall("pieceTransform", TransformInputs)
  /\ [][CallPieceTransform]_vars

\* ------------------------------------------------------------------------
\* Calls of premoveDests
\* ------------------------------------------------------------------------
Roles == {"p", "n", "b", "r", "q", "k"}

Colors == {"w", "b"}

\* A lone piece of any role and colour on any square.
LonePieceInputs ==
  { << sq, [x \in {sq} |-> Piece(c, role)], c >> :
      sq \in Squares, c \in Colors, role \in Roles }

\* The origins of the crowded positions (d4, and e1 where a white king may
\* castle) and the squares around d4 and e1 other pieces stand on.
CrowdOrigins == { <<3, 3>>, <<4, 0>> }

CrowdSquares == { <<3, 4>>, <<3, 5>>, <<4, 4>>, <<5, 5>>, <<5, 4>>, <<6, 0>> }

\* A piece on one of the origins with up to two pawns of either colour on
\* the squares around.
CrowdInputs ==
  { << sq, [x \in {sq} \cup DOMAIN others |->
              IF x = sq THEN Piece(c, role) ELSE Piece(others[x], "p")], c >> :
      sq \in CrowdOrigins, c \in Colors, role \in Roles,
      others \in UNION { [S -> Colors] :
                           S \in { T \in SUBSET CrowdSquares : Cardinality(T) <= 2 } } }

CallPremoveDests ==
  Returns(premoveDests(callArgs[1].args[1], callArgs[1].args[2],
                       callArgs[1].args[3]))

SpecPremove ==
  /\ InitCall("premoveDests", LonePieceInputs \cup CrowdInputs)
  /\ [][CallPremoveDests]_vars

\* ------------------------------------------------------------------------
\* readFen and writeFen (a FEN is a sequence of one-character strings)
\* ------------------------------------------------------------------------
\* String(n) for an empty count 1..8, and charCodeAt(0) - 48 back.
Digits == << "1", "2", "3", "4", "5", "6", "7", "8" >>

IsDigit(ch) == \E n \in 1..8 : Digits[n] = ch

digitValue(ch) == CHOOSE n \in 1..8 : Digits[n] = ch

toUpperCase(ch) ==
  CASE ch = "p" -> "P" [] ch = "n" -> "N" [] ch = "b" -> "B"
    [] ch = "r" -> "R" [] ch = "q" -> "Q" [] ch = "k" -> "K"
    [] OTHER -> ch

toLowerCase(ch) ==
  CASE ch = "P" -> "p" [] ch = "N" -> "n" [] ch = "B" -> "b"
    [] ch = "R" -> "r" [] ch = "Q" -> "q" [] ch = "K" -> "k"
    [] OTHER -> ch

\* fen.split(' ')[0] || fen
placementOf(fen) ==
  LET RECURSIVE upTo(_)
      upTo(i) == IF i > Len(fen) \/ fen[i] = " " THEN <<>>
                 ELSE << fen[i] >> \o upTo(i + 1)
  IN IF upTo(1) = <<>> THEN fen ELSE upTo(1)

\* The loop of readFen over the placement, from character i with the rank
\* and file cursors and the fenPieces read so far.
RECURSIVE readPlacement(_, _, _, _, _)
readPlacement(placement, i, rank, file, fenPieces) ==
  IF i > Len(placement) THEN fenPieces
  ELSE LET ch == placement[i]
       IN IF ch = "/"
          THEN (IF rank - 1 < 0 THEN fenPieces
                ELSE readPlacement(placement, i + 1, rank - 1, 0, fenPieces))
          ELSE IF ch = " " \/ ch = "[" THEN fenPieces
          ELSE IF IsDigit(ch)
          THEN readPlacement(placement, i + 1, rank, file + digitValue(ch), fenPieces)
          ELSE LET lower == toLowerCase(ch)
               IN IF lower \in Roles /\ file < 8 /\ rank >= 0
                  THEN readPlacement(placement, i + 1, rank, file + 1,
                         [x \in DOMAIN fenPieces \cup { <<file, rank>> } |->
                            IF x = <<file, rank>>
                            THEN Piece(IF ch = lower THEN "b" ELSE "w", lower)
                            ELSE fenPieces[x]])
                  ELSE readPlacement(placement, i + 1, rank, file + 1, fenPieces)

readFen(fen) ==
  LET placement == placementOf(fen)
  IN IF placement = << "s", "t", "a", "r", "t" >>
     THEN readPlacement(INITIAL_FEN, 1, 7, 0, <<>>)
     ELSE readPlacement(placement, 1, 7, 0, <<>>)

\* One rank of writeFen from file f on, with the count of empty squares
\* passed since the last piece.
RECURSIVE writeRank(_, _, _, _)
writeRank(fenPieces, r, f, empty) ==
  IF f >= 8 THEN (IF empty > 0 THEN << Digits[empty] >> ELSE <<>>)
  ELSE IF Has(fenPieces, <<f, r>>)
  THEN (IF empty > 0 THEN << Digits[empty] >> ELSE <<>>)
       \o << IF fenPieces[<<f, r>>].color = "w"
             THEN toUpperCase(fenPieces[<<f, r>>].role)
             ELSE fenPieces[<<f, r>>].role >>
       \o writeRank(fenPieces, r, f + 1, 0)
  ELSE writeRank(fenPieces, r, f + 1, empty + 1)

\* writeFen as it would be if the empty count were not written before a piece.
writeFen_noCount(fenPieces) ==
  LET RECURSIVE letters(_, _)
      letters(r, f) ==
        IF f >= 8 THEN <<>>
        ELSE (IF Has(fenPieces, <<f, r>>)
              THEN << IF fenPieces[<<f, r>>].color = "w"
                      THEN toUpperCase(fenPieces[<<f, r>>].role)
                      ELSE fenPieces[<<f, r>>].role >>
              ELSE <<>>) \o letters(r, f + 1)
      RECURSIVE ranks(_)
      ranks(r) == letters(r, 0) \o (IF r = 0 THEN <<>> ELSE << "/" >> \o ranks(r - 1))
  IN ranks(7)

writeFen(fenPieces) ==
  LET RECURSIVE ranks(_)
      ranks(r) == writeRank(fenPieces, r, 0, 0)
                  \o (IF r = 0 THEN <<>> ELSE << "/" >> \o ranks(r - 1))
  IN ranks(7)

\* The squares the round trip is tried on (a8, b8, h8, d4, h1) and the
\* positions: every assignment of a piece of either colour and any role to
\* at most FenMaxPieces of them, and the initial position.
FenSquares == { <<0, 7>>, <<1, 7>>, <<7, 7>>, <<3, 3>>, <<7, 0>> }

FenMaxPieces == 3

FenPositions ==
  UNION { [S -> { Piece(c, role) : c \in Colors, role \in Roles }] :
            S \in { T \in SUBSET FenSquares : Cardinality(T) <= FenMaxPieces } }
  \cup { readFen(INITIAL_FEN) }

\* readFen(writeFen(pieces)): writeFen's result is kept with the answer.
CallFenRoundTrip ==
  Returns([fen |-> writeFen(callArgs[1].args),
           pieces |-> readFen(writeFen(callArgs[1].args))])

SpecFen ==
  /\ InitCall("readFen(writeFen)", FenPositions)
  /\ [][CallFenRoundTrip]_vars

\* ------------------------------------------------------------------------
\* Square to screen and back
\* ------------------------------------------------------------------------
squareCenter(sq, white, bounds) ==
  LET t == pos2translate(sq, white, bounds.width, bounds.height)
  IN << bounds.left + t[1] + bounds.width \div 16,
        bounds.top + t[2] + bounds.height \div 16 >>

\* The upper left corner of the on-screen cell of a square: pos2translate
\* offset by the origin of the rectangle.
cellOrigin(sq, white, bounds) ==
  LET t == pos2translate(sq, white, bounds.width, bounds.height)
  IN << bounds.left + t[1], bounds.top + t[2] >>

\* Board rectangles, lengths in sixteenths of a pixel so that width / 8 and
\* width / 16 are whole: a 3 x 3 pixel board at the origin, and a 1 x 5 pixel
\* board whose origin is off the pixel grid, above the viewport.
CoordRects ==
  { [left |-> 0, top |-> 0, width |-> 48, height |-> 48],
    [left |-> 37, top |-> -20, width |-> 16, height |-> 80] }

\* A square, an orientation, a rectangle and a point of the square's cell:
\* its centre (None) or the point at an offset from the cell's corner.
CoordInputs ==
  { << sq, white, bounds, pt >> :
      sq \in Squares, white \in BOOLEAN, bounds \in CoordRects,
      pt \in {None} \cup { Some(<<dx, dy>>) : dx \in 0..9, dy \in 0..9 } }

\* The point is taken in the cell, then given to screenPos2square.
CallSquareRoundTrip ==
  LET sq == callArgs[1].args[1]
      white == callArgs[1].args[2]
      bounds == callArgs[1].args[3]
      pt == callArgs[1].args[4]
      corner == cellOrigin(sq, white, bounds)
      point == IF pt = None THEN squareCenter(sq, white, bounds)
               ELSE << corner[1] + pt[1][1], corner[2] + pt[1][2] >>
  IN /\ pt # None => /\ pt[1][1] < bounds.width \div 8
                     /\ pt[1][2] < bounds.height \div 8
     /\ Returns([point |-> point,
                 square |-> screenPos2square(point[1], point[2], white, bounds)])

SpecCoords ==
  /\ InitCall("screenPos2square", CoordInputs)
  /\ [][CallSquareRoundTrip]_vars

\* ------------------------------------------------------------------------
\* Properties
\* ------------------------------------------------------------------------
\* The positions in the log l of the calls of fn.
CallsIn(l, fn) == { i \in 1..Len(l) : l[i].fn = fn }

\* The handler the log l starts with is fn.
EnteredIn(l, fn) == Len(l) > 0 /\ l[1].fn = fn

\* Under the props o the table, if any, lists `to` under `from`.
Permitted(o, from, to) == o.dests = None \/ Includes(destsGet(o, from), to)

\* The log l holds exactly one onMove call, with these arguments.
OneMoveCallIn(l, from, to, promotion) ==
  /\ Cardinality(CallsIn(l, "onMove")) = 1
  /\ \A i \in CallsIn(l, "onMove") : l[i].args = <<from, to, promotion>>

\* In the step, every move attempt without a promotion piece for a pawn
\* arriving on its far rank, with interaction enabled, a callback registered
\* and the destination permitted, returns 'pending', records the pending
\* promotion and calls no onMove.
PromotionSuspends ==
  \A i \in CallsIn(log', "attemptMove") :
    LET from == log'[i].args[1]
        to == log'[i].args[2]
    IN (/\ log'[i].args[3] = ""
        /\ opts.interactive /\ opts.onMove /\ Permitted(opts, from, to)
        /\ isPromotionMove(from, to))
       => /\ log'[i + 1].fn = "attemptMove.return"
          /\ log'[i + 1].args[3] = "pending"
          /\ CallsIn(log', "onMove") = {}
          /\ pendingPromotion' = Some([from |-> from, to |-> to,
                                       color |-> pieces[from].color])

\* C1 (as amended): a move attempt for a pawn arriving on its far rank made
\* without a promotion piece, with interaction enabled, a move callback
\* registered and the destination permitted, does not invoke the move
\* callback, records the pending promotion {from, to, color} and yields
\* 'pending'; choosing a piece afterwards clears the pending promotion, and
\* invokes the move callback exactly once with (from, to, chosen piece) if at
\* that moment interaction is still enabled and the destination is still
\* permitted.
C1_PromotionSuspendsThenResolves ==
  [][ /\ PromotionSuspends
      /\ (pendingPromotion # None /\ EnteredIn(log', "handlePromotionSelect"))
         => LET pp == pendingPromotion[1]
            IN /\ pendingPromotion' = None
               /\ (opts.interactive /\ opts.onMove
                   /\ Permitted(opts, pp.from, pp.to))
                  => OneMoveCallIn(log', pp.from, pp.to, log'[1].args[1]) ]_vars

\* C1, reached: a piece was chosen for a pending promotion and the move went
\* to the host with that piece.
C1_Witness ==
  /\ EnteredIn(log, "handlePromotionSelect")
  /\ pendingPromotion = None
  /\ \E i \in CallsIn(log, "onMove") : log[i].args[3] = log[1].args[1]

\* C1 (as stated): ... choosing a piece afterwards clears the pending
\* promotion and invokes the move callback exactly once, with (from, to,
\* chosen piece), whatever the props are by then.
C1_AsStated ==
  [][ /\ PromotionSuspends
      /\ (pendingPromotion # None /\ opts.onMove
          /\ EnteredIn(log', "handlePromotionSelect"))
         => LET pp == pendingPromotion[1]
            IN /\ pendingPromotion' = None
               /\ OneMoveCallIn(log', pp.from, pp.to, log'[1].args[1]) ]_vars

\* C2: whenever a legal-destination table is supplied, every onMove call of
\* the last step (click, drag release, promotion choice, premove replay) has
\* its destination listed under its origin in the table of that step; and a
\* move attempt to an unlisted destination, or with no move callback
\* registered, returns false at once: no callback between the call and the
\* return, no state written.
C2_CallbackOnlyForListedMoves ==
  /\ \A i \in CallsIn(log, "onMove") :
       opts.dests # None => Includes(destsGet(opts, log[i].args[1]), log[i].args[2])
  /\ \A i \in CallsIn(log, "attemptMove") :
       (~opts.onMove \/ ~Permitted(opts, log[i].args[1], log[i].args[2]))
       => /\ log[i + 1].fn = "attemptMove.return"
          /\ log[i + 1].args[3] = "false"
          /\ log[i + 1].args[4] = FALSE

\* C2, reached: with a table supplied and a callback registered, a move to a
\* destination the table does not list was attempted.
C2_Witness ==
  /\ opts.dests # None /\ opts.onMove /\ opts.interactive
  /\ \E i \in CallsIn(log, "attemptMove") :
       ~Includes(destsGet(opts, log[i].args[1]), log[i].args[2])

\* C3: with premoves enabled and a premove (from, to) stored, a render in
\* which the turn colour becomes the colour of the piece on `from`, with `to`
\* listed under `from` in the table of that render (and a move callback
\* registered), calls onMove once with (from, to) and no promotion piece,
\* clears the stored premove and fires the unset hook.
C3_PremoveReplayedOnTurn ==
  [][ (/\ premoveCurrent # None
       /\ premovableEnabled(opts')
       /\ opts'.turnColor # opts.turnColor
       /\ Has(piecesOf(opts'), premoveCurrent[1][1])
       /\ piecesOf(opts')[premoveCurrent[1][1]].color = opts'.turnColor
       /\ opts'.dests # None
       /\ Includes(destsGet(opts', premoveCurrent[1][1]), premoveCurrent[1][2])
       /\ opts'.onMove)
      => /\ OneMoveCallIn(log', premoveCurrent[1][1], premoveCurrent[1][2], "")
         /\ premoveCurrent' = None
         /\ CallsIn(log', "premovable.events.unset") # {} ]_vars

\* C3, reached: a stored premove was replayed by a render, with a table
\* supplied that lists it.
C3_Witness ==
  /\ opts.dests # None
  /\ premoveCurrent = None
  /\ \E i \in CallsIn(log, "premoveReplay") :
       Includes(destsGet(opts, log[i].args[1]), log[i].args[2])

\* C4 (as stated): every onMove call for a pawn arriving on its far rank
\* carries a promotion piece.
C4_FarRankCallCarriesPiece ==
  \A i \in CallsIn(log, "onMove") :
    isPromotionMove(log[i].args[1], log[i].args[2]) => log[i].args[3] # ""

\* C5 (as stated): while interaction is disabled the move callback is never
\* invoked.
C5_NoCallbackWhileDisabled ==
  ~opts.interactive => CallsIn(log, "onMove") = {}

\* The step forwarded the move from -> to: an onMove call for it, or the
\* promotion prompt for it.
Forwarded(from, to) ==
  \/ \E j \in CallsIn(log', "onMove") :
       log'[j].args[1] = from /\ log'[j].args[2] = to
  \/ /\ pendingPromotion' # None
     /\ pendingPromotion'[1].from = from /\ pendingPromotion'[1].to = to

\* C6 (as stated): with no legal-destination table, interaction enabled and a
\* move callback registered, a click on an empty square while a movable piece
\* is selected forwards the move selected -> clicked, and so does a drag of a
\* movable piece released on another square.
C6_AnyDestinationAccepted ==
  [][ (opts.dests = None /\ opts.interactive /\ opts.onMove)
      => /\ \A i \in CallsIn(log', "handleSquareInteraction") :
              (/\ selectedSquare # None
               /\ Has(pieces, selectedSquare)
               /\ canMoveColor(pieces[selectedSquare].color)
               /\ ~justDrewArrowRef
               /\ ~Has(pieces, log'[i].args[1]))
              => Forwarded(selectedSquare, log'[i].args[1])
         /\ \A i \in CallsIn(log', "dragRelease") :
              (/\ log'[i].args[2] # None
               /\ log'[i].args[2] # log'[i].args[1]
               /\ Has(pieces, log'[i].args[1])
               /\ canMoveColor(pieces[log'[i].args[1]].color))
              => Forwarded(log'[i].args[1], log'[i].args[2]) ]_vars

\* C7 (as stated): when onMove returns a falsy result for an attempted move,
\* selectedSquare, legalSquares and premoveSquares are after the click or the
\* release what they were before it.
C7_RefusedMoveKeepsSelection ==
  [][ (\E i \in CallsIn(log', "attemptMove.return") :
         log'[i].args[3] = "false" /\ log'[i - 1].fn = "onMove")
      => UNCHANGED << selectedSquare, legalSquares, premoveSquares >> ]_vars

\* C8: a release of the left button or a touch that ends a press on a
\* draggable piece during which the pointer always stayed less than
\* DRAG_THRESHOLD px from the press point resolves as a click (square
\* interaction on the pressed square) and makes no drag-path attempt; and as
\* long as the pointer has so stayed, the drag exposed to the renderer is
\* none.
C8_ShortPressIsAClick ==
  [][ /\ (dragRef # None /\ ~travelled /\ EnteredIn(log', "handleUp")
          /\ log'[1].args[1] = "primary")
         => /\ Len(log') >= 2
            /\ log'[2].fn = "handleSquareInteraction"
            /\ log'[2].args[1] = dragRef[1].origSquare
            /\ CallsIn(log', "dragRelease") = {}
      /\ (dragRef' # None /\ ~travelled') => exposedDrag' = None ]_vars

\* C8, reached: a press whose pointer moved, but less than the threshold, was
\* released and resolved as a click.
C8_Witness ==
  /\ EnteredIn(log, "handleUp")
  /\ log[1].args[2]
  /\ CallsIn(log, "handleSquareInteraction") # {}
  /\ dragRef = None

\* C9: after every release of the left button or a touch no drag remains,
\* neither in the ref nor in the state, whatever the release resolved to.
C9_NoDragAfterRelease ==
  (EnteredIn(log, "handleUp") /\ log[1].args[1] = "primary")
  => drag = None /\ dragRef = None

\* C9, reached: a started drag was released and armed a premove.
C9_Witness ==
  /\ EnteredIn(log, "handleUp")
  /\ CallsIn(log, "dragRelease") # {}
  /\ CallsIn(log, "premovable.events.set") # {}
  /\ premoveCurrent # None

\* C10: while a promotion choice is pending, a pointer-down (either button,
\* any square) changes nothing - no drag, no arrow start, selection, stored
\* premove and overlays as they were - and calls nothing.
C10_PendingPromotionIsModal ==
  [][ (pendingPromotion # None /\ EnteredIn(log', "handlePointerDown"))
      => /\ Len(log') = 1
         /\ UNCHANGED << opts, selectedSquare, legalSquares, premoveSquares,
                         premoveCurrent, pendingPromotion, drag, dragRef,
                         arrowStartRef, arrowColorRef, arrowPosRef,
                         justDrewArrowRef, dragKeyChangedRef,
                         internalArrowsMap, internalMarksMap, timers,
                         travelled >> ]_vars

\* C10, reached: the right button was pressed on the board while a promotion
\* choice was pending.
C10_Witness ==
  /\ pendingPromotion # None
  /\ EnteredIn(log, "handlePointerDown")
  /\ log[1].args[1] = "right"
  /\ opts.boardBounds # None

\* C11 (as stated): with premoves enabled and a premove stored, a render in
\* which the turn becomes the colour of the side that armed it (the movable
\* colour) resolves the premove whatever the new position is: the stored
\* premove becomes none and the unset hook fires; with the destination listed
\* in the table of that render the move goes to onMove once, with it unlisted
\* no onMove call is made.
C11_PremoveResolvedOnOwnersTurn ==
  [][ (/\ premoveCurrent # None
       /\ premovableEnabled(opts')
       /\ opts'.turnColor # opts.turnColor
       /\ opts'.turnColor = opts'.movableColor)
      => LET from == premoveCurrent[1][1]
             to == premoveCurrent[1][2]
         IN /\ premoveCurrent' = None
            /\ CallsIn(log', "premovable.events.unset") # {}
            /\ (opts'.dests # None /\ ~Includes(destsGet(opts', from), to))
               => CallsIn(log', "onMove") = {}
            /\ (opts'.dests # None /\ Includes(destsGet(opts', from), to)
                /\ opts'.onMove)
               => OneMoveCallIn(log', from, to, "") ]_vars

\* What a square-interaction at position i of the log of the step does when
\* it is processed in full: a stored premove is cancelled (unset fires before
\* any move attempt, premove arming or click notification), the arrows and
\* marks kept for the current move index are emptied, and a premove stored
\* afterwards is one the same interaction armed.
InteractionClearsFirst(i) ==
  /\ premoveCurrent # None
     => \E j \in CallsIn(log', "premovable.events.unset") :
          /\ j > i
          /\ \A k \in i..j : log'[k].fn \notin
               {"attemptMove", "onMove", "premovable.events.set", "onSquareClick"}
  /\ mapGet(internalArrowsMap', ply) = <<>>
  /\ mapGet(internalMarksMap', ply) = <<>>
  /\ premoveCurrent' # None
     => \E j \in CallsIn(log', "premovable.events.set") :
          j > i /\ log'[j].args = premoveCurrent'[1]

\* C12 (as amended): every square-interaction processed while interaction is
\* enabled, other than the one that follows the drawing of an arrow while the
\* just-drew-arrow guard is still set (that one only resets the guard), first
\* cancels any stored premove (the unset hook fires) and empties the marks
\* and arrows stored for the current move index; afterwards the only premove
\* that can be stored is one armed by that same interaction.
C12_InteractionClearsPremoveAndOverlays ==
  [][ \A i \in CallsIn(log', "handleSquareInteraction") :
        (opts.interactive /\ ~justDrewArrowRef) => InteractionClearsFirst(i) ]_vars

\* C12, reached: a square-interaction cancelled a stored premove and cleared
\* the overlays of the current move index.
C12_Witness ==
  /\ CallsIn(log, "handleSquareInteraction") # {}
  /\ CallsIn(log, "premovable.events.unset") # {}
  /\ CallsIn(log, "onClearOverlays") # {}

\* C12 (as stated): every square-interaction processed while interaction is
\* enabled cancels the premove and empties the overlays first.
C12_AsStated ==
  [][ \A i \in CallsIn(log', "handleSquareInteraction") :
        opts.interactive => InteractionClearsFirst(i) ]_vars

\* C13 (as stated): a release with no matching press - left button or touch
\* with no drag, or right button with no arrow start - changes no state and
\* calls nothing.
C13_UnmatchedReleaseIgnored ==
  [][ (/\ EnteredIn(log', "handleUp")
       /\ \/ log'[1].args[1] = "primary" /\ dragRef = None
          \/ log'[1].args[1] = "right" /\ arrowStartRef = None)
      => /\ Len(log') = 1
         /\ UNCHANGED << opts, selectedSquare, legalSquares, premoveSquares,
                         premoveCurrent, pendingPromotion, drag, dragRef,
                         arrowStartRef, arrowColorRef, arrowPosRef,
                         justDrewArrowRef, dragKeyChangedRef,
                         internalArrowsMap, internalMarksMap, timers,
                         travelled >> ]_vars

\* A point that lies outside the board rectangle.
Outside(p, bounds) ==
  \/ p[1] < bounds.left \/ p[1] >= bounds.left + bounds.width
  \/ p[2] < bounds.top \/ p[2] >= bounds.top + bounds.height

\* Points one and two pixels on either side of each edge of the board.
EdgeProbes ==
  { <<x, y>> : x \in {7, 8, 71, 72}, y \in {15, 16, 79, 80} }

\* C14: a started drag released outside the board rectangle resolves to no
\* square, no move is attempted, the move callback is not invoked, no
\* promotion is opened and no premove is armed; at such a release no point
\* just outside an edge of the board resolves to a square either.
C14_OffBoardReleaseIsNoMove ==
  [][ /\ \A i \in CallsIn(log', "dragRelease") :
           Outside(log'[i].args[3], opts.boardBounds[1])
           => /\ log'[i].args[2] = None
              /\ CallsIn(log', "attemptMove") = {}
              /\ CallsIn(log', "onMove") = {}
              /\ CallsIn(log', "premovable.events.set") = {}
              /\ premoveCurrent' = premoveCurrent
              /\ pendingPromotion' = pendingPromotion
              /\ \A p \in EdgeProbes :
                   Outside(p, opts.boardBounds[1])
                   => screenPos2square(p[1], p[2], asWhite,
                                       opts.boardBounds[1]) = None ]_vars

\* C14 witness: a drag that had started was released outside the board.
C14_Witness ==
  /\ EnteredIn(log, "handleUp")
  /\ \E i \in CallsIn(log, "dragRelease") :
       /\ Outside(log[i].args[3], opts.boardBounds[1])
       /\ Has(pieces, log[i].args[1])
       /\ canMoveColor(pieces[log[i].args[1]].color)

OverlayCallbacks ==
  {"onArrowsChange", "onPlyArrowsChange", "onMarkedSquaresChange", "onPlyMarksChange"}

\* The outcome of a right-button release with arrow start s whose point
\* resolves to the square raw: one toggle of the mark on s and the arrows
\* untouched, or one toggle of an arrow from s to another square and the
\* marks untouched; the arrow start is cleared.
ArrowReleaseOutcome(s, raw) ==
  /\ arrowStartRef' = None
  /\ IF raw = s \/ raw = None
     THEN /\ Cardinality(CallsIn(log', "toggleMark")) = 1
          /\ \A j \in CallsIn(log', "toggleMark") : log'[j].args = <<s>>
          /\ CallsIn(log', "toggleArrow") = {}
          /\ internalArrowsMap' = internalArrowsMap
          /\ mapGet(internalMarksMap', ply)
               = toggleList(mapGet(internalMarksMap, ply), s)
     ELSE /\ Cardinality(CallsIn(log', "toggleArrow")) = 1
          /\ \A j \in CallsIn(log', "toggleArrow") :
               /\ log'[j].args[1] = s
               /\ log'[j].args[2] # s
               /\ ~opts.snapArrowsToValidMoves => log'[j].args[2] = raw
               /\ opts.snapArrowsToValidMoves
                  => snapCandidate(s, log'[j].args[2][1], log'[j].args[2][2])
          /\ CallsIn(log', "toggleMark") = {}
          /\ internalMarksMap' = internalMarksMap
          /\ internalArrowsMap' # internalArrowsMap

\* C15: when the right button is released with an arrow start set, the
\* outcome is decided by the square under the position the handler resolves
\* (the last tracked pointer position, else the position of the release):
\* a mark toggle on the origin if that square is the origin or none, else one
\* arrow toggle from the origin to another square; the arrow start is
\* cleared either way.
C15_ArrowReleaseTogglesOne ==
  [][ \A i \in CallsIn(log', "arrowRelease") :
        ArrowReleaseOutcome(log'[i].args[1], squareAt(log'[i].args[2])) ]_vars

\* C15 witness: a release that resolved to another square than the origin and
\* toggled an arrow.
C15_Witness ==
  /\ CallsIn(log, "arrowRelease") # {}
  /\ \E j \in CallsIn(log, "toggleArrow") : log[j].args[1] # log[j].args[2]
  /\ arrowStartRef = None

\* C15 (as stated): the same, decided by the square under the point of the
\* release event.
C15_AsStated ==
  [][ \A i \in CallsIn(log', "arrowRelease") :
        ArrowReleaseOutcome(log'[i].args[1], squareAt(log'[i].args[3])) ]_vars

\* The brush colours eventBrushColor can yield.
BrushColours == {"green", "red", "blue", "yellow"}

\* The (start, end) pairs of an arrow list.
PairsOf(list) ==
  { <<list[i].startSquare, list[i].endSquare>> : i \in 1..Len(list) }

HasPair(list, start, end) ==
  \E i \in 1..Len(list) : sameArrow(list[i], start, end)

\* C16: after a toggle of the pair (start, end), a second toggle of the same
\* pair, whatever its colour, gives an arrow list with the (start, end) pairs
\* of the list before the first toggle; the list itself is restored when the
\* pair was absent before the first toggle.
C16_DoubleToggleRestoresPairs ==
  [][ \A i \in CallsIn(log', "toggleArrow") :
        LET start == log'[i].args[1]
            end == log'[i].args[2]
            before == mapGet(internalArrowsMap, ply)
            once == mapGet(internalArrowsMap', ply)
        IN /\ once = toggleArrowList(before, start, end, log'[i].args[3])
           /\ \A c \in BrushColours :
                LET twice == toggleArrowList(once, start, end, c)
                IN /\ PairsOf(twice) = PairsOf(before)
                   /\ Len(twice) = Len(before)
                   /\ ~HasPair(before, start, end) => twice = before ]_vars

\* C16 witness: the toggle just made removed a pair that was drawn earlier,
\* and another arrow is left in the list.
C16_Witness ==
  \E i \in CallsIn(log, "toggleArrow") :
    /\ ~HasPair(mapGet(internalArrowsMap, ply), log[i].args[1], log[i].args[2])
    /\ mapGet(internalArrowsMap, ply) # <<>>

\* C16 (as stated): the second toggle gives back the list as it was before
\* the first, whether or not it held the pair.
C16_AsStated ==
  [][ \A i \in CallsIn(log', "toggleArrow") :
        \A c \in BrushColours :
          toggleArrowList(mapGet(internalArrowsMap', ply),
                          log'[i].args[1], log'[i].args[2], c)
            = mapGet(internalArrowsMap, ply) ]_vars

\* The stores one step wrote to, per overlay kind.
ArrowWrites ==
  (IF CallsIn(log', "onArrowsChange") # {} THEN {"global"} ELSE {})
  \cup (IF CallsIn(log', "onPlyArrowsChange") # {} THEN {"index"} ELSE {})
  \cup (IF internalArrowsMap' # internalArrowsMap THEN {"internal"} ELSE {})

MarkWrites ==
  (IF CallsIn(log', "onMarkedSquaresChange") # {} THEN {"global"} ELSE {})
  \cup (IF CallsIn(log', "onPlyMarksChange") # {} THEN {"index"} ELSE {})
  \cup (IF internalMarksMap' # internalMarksMap THEN {"internal"} ELSE {})

\* The store the stated precedence selects: global control, else the control
\* keyed by the move index, else the internal map.
StatedArrowStore ==
  IF opts.onArrowsChange THEN "global"
  ELSE IF opts.onPlyArrowsChange /\ opts.plyIndex # None THEN "index"
  ELSE "internal"

StatedMarkStore ==
  IF opts.markedSquares # None THEN "global"
  ELSE IF opts.onPlyMarksChange /\ opts.plyIndex # None THEN "index"
  ELSE "internal"

\* C17 (as stated): a step writes arrows only to the store the precedence
\* global > per-index > internal selects, and marks likewise; a toggle writes
\* to exactly that store.
C17_WritesFollowStatedPrecedence ==
  [][ /\ ArrowWrites \subseteq {StatedArrowStore}
      /\ MarkWrites \subseteq {StatedMarkStore}
      /\ CallsIn(log', "toggleArrow") # {} => ArrowWrites = {StatedArrowStore}
      /\ CallsIn(log', "toggleMark") # {} => MarkWrites = {StatedMarkStore} ]_vars

\* Every combination of turnColor, movableColor ('w', 'b', 'both' or absent)
\* and premove configuration (absent, enabled, disabled), on the current
\* host.
ColourConfigs ==
  { [opts EXCEPT !.turnColor = t, !.movableColor = m, !.premovable = p] :
      t \in {"none", "w", "b"}, m \in {"none", "w", "b", "both"},
      p \in { None, Some([enabled |-> TRUE, current |-> None]),
              Some([enabled |-> FALSE, current |-> None]) } }

\* C18: in free mode both colours can move, neither can premove, no premove
\* is stored and the premove set hook is not called; and for every
\* combination of turnColor, movableColor and premove configuration no colour
\* can both move and premove.
C18_FreeModeMovesNeverPremoves ==
  /\ \A o \in ColourConfigs, c \in {"w", "b"} :
       /\ ~(canMoveColorOf(o, c) /\ canPremoveColorOf(o, c))
       /\ freeModeOf(o) => canMoveColorOf(o, c) /\ ~canPremoveColorOf(o, c)
  /\ freeMode
     => /\ premoveCurrent = None
        /\ premoveSquares = <<>>
        /\ CallsIn(log, "premovable.events.set") = {}

\* C18 witness: in free mode, with premoves enabled by the host and the board
\* seen from white's side, a black piece was moved.
C18_Witness ==
  /\ freeMode /\ premovableEnabled(opts) /\ asWhite
  /\ \E i \in CallsIn(log, "onMove") :
       /\ Has(pieces, log[i].args[1])
       /\ pieces[log[i].args[1]].color = "b"

\* C19: at most one tick of each engine is pending, it is the one the engine
\* holds the id of, and it was requested under the plan that is installed
\* now: no tick of a plan that was replaced is left to run.
C19_OneTickPending ==
  /\ Cardinality(Pending("animLoop")) <= 1
  /\ Cardinality(Pending("step")) <= 1
  /\ \A e \in Pending("animLoop") :
       animRef # None /\ e.plan = animRef[1].plan /\ rafIdRef = Some(e.id)
  /\ \A e \in Pending("step") :
       /\ controllerCurrent # None /\ e.plan = controllerCurrent[1].plan
       /\ controllerRafId = Some(e.id)
  /\ \A i \in CallsIn(log, "animLoop") \cup CallsIn(log, "step") :
       log[i].args[1] = log[i].args[2]

\* C19 witness: a new plan was installed while the plan before it was still
\* running with a tick pending.
C19_Witness ==
  /\ CallsIn(log, "useLayoutEffect") # {}
  /\ log[1].args[1] > 1 /\ log[1].args[2] = log[1].args[1] - 1
  /\ log[1].args[3] = 1
  /\ animRef # None /\ animRef[1].plan = log[1].args[1]

\* A tick of fn that ran with a plan installed: it drops the plan and
\* requests nothing more when rest <= 0, and otherwise keeps the plan and
\* requests one tick.
TickOutcome(fn, before, after) ==
  \A i \in CallsIn(log', fn) :
    log'[i].args[2] # 0
    => IF log'[i].args[3] <= 0
       THEN after = None /\ Pending(fn)' = {}
       ELSE after = before /\ Cardinality(Pending(fn)') = 1

\* C20: every plan installed is removed in the end, and while none is
\* installed no tick is pending; a tick drops the plan exactly when the
\* time elapsed has reached the duration, and then requests no further tick.
C20_TickChainEnds ==
  /\ \A p \in 1..MaxPlans :
       /\ (PlanOf(animRef) = p) ~> (PlanOf(animRef) # p)
       /\ (PlanOf(controllerCurrent) = p) ~> (PlanOf(controllerCurrent) # p)
  /\ [](animRef = None => Pending("animLoop") = {})
  /\ [](controllerCurrent = None => Pending("step") = {})
  /\ <>[](animRef = None /\ controllerCurrent = None /\ rafQueue = {})
  /\ [][ /\ TickOutcome("animLoop", animRef, animRef')
         /\ TickOutcome("step", controllerCurrent, controllerCurrent') ]_vars

\* C20 witness: a tick found the duration of the installed plan elapsed,
\* dropped the plan and left nothing pending.
C20_Witness ==
  /\ CallsIn(log, "animLoop") # {}
  /\ log[1].args[2] # 0 /\ log[1].args[3] <= 0
  /\ animRef = None /\ rafIdRef = None /\ Pending("animLoop") = {}

\* The last call was a call of fn.
Called(fn) == callArgs # None /\ callArgs[1].fn = fn /\ callResult # None

\* next is prev with the piece of a moved to the empty square b, and nothing
\* else changed.
OnlyMoved(prev, next, a, b) ==
  /\ Has(prev, a) /\ ~Has(prev, b) /\ a # b
  /\ DOMAIN next = (DOMAIN prev \ {a}) \cup {b}
  /\ next[b] = prev[a]
  /\ \A sq \in DOMAIN prev \ {a} : next[sq] = prev[sq]

\* C21: when one piece has gone from a to the empty square b and nothing else
\* changed, the plan has one motion, keyed at b, from a's coordinates to
\* b's, and no fades.
C21_SingleMoveSingleMotion ==
  Called("computeAnimPlan")
  => LET prev == callArgs[1].args[1]
         next == callArgs[1].args[2]
         plan == callResult[1]
     IN \A a \in PlanSquares, b \in PlanSquares :
          OnlyMoved(prev, next, a, b)
          => /\ DOMAIN plan.anims = {b}
             /\ plan.anims[b].fromPos = a
             /\ plan.anims[b].toPos = b
             /\ DOMAIN plan.fadings = {}

\* C21 witness: a plan was computed for such a pair of positions, with other
\* pieces standing by.
C21_Witness ==
  /\ Called("computeAnimPlan")
  /\ \E a \in PlanSquares, b \in PlanSquares :
       /\ OnlyMoved(callArgs[1].args[1], callArgs[1].args[2], a, b)
       /\ Cardinality(DOMAIN callArgs[1].args[1]) = 3

\* The squares the motions of a plan start from.
OriginsOf(plan) == { plan.anims[k].fromPos : k \in DOMAIN plan.anims }

\* The piece that stood on sq in prev is absent from sq or replaced there in
\* next.
GoneFrom(prev, next, sq) ==
  Has(prev, sq) /\ (~Has(next, sq) \/ next[sq] # prev[sq])

\* C22: a piece that is gone from its square and is the origin of no motion
\* is in fadings under that square, and a piece in fadings is the origin of
\* no motion; a gone piece whose colour and role no newly placed piece has is
\* never the origin of a motion.
C22_UnconsumedPieceFades ==
  Called("computeAnimPlan")
  => LET prev == callArgs[1].args[1]
         next == callArgs[1].args[2]
         plan == callResult[1]
     IN /\ \A sq \in PlanSquares :
             GoneFrom(prev, next, sq)
             => /\ sq \notin OriginsOf(plan)
                   => Has(plan.fadings, sq) /\ plan.fadings[sq] = prev[sq]
                /\ (\A b \in PlanSquares :
                      (Has(next, b) /\ next[b] = prev[sq])
                      => (Has(prev, b) /\ prev[b] = next[b]))
                   => sq \notin OriginsOf(plan)
        /\ DOMAIN plan.fadings \cap OriginsOf(plan) = {}
        /\ \A sq \in DOMAIN plan.fadings : GoneFrom(prev, next, sq)

\* C22 witness: a capture - a piece went to a square where a piece of the
\* other colour stood, and that piece fades there.
C22_Witness ==
  /\ Called("computeAnimPlan")
  /\ \E a \in PlanSquares, b \in PlanSquares :
       LET prev == callArgs[1].args[1]
           next == callArgs[1].args[2]
       IN /\ Has(prev, a) /\ Has(prev, b) /\ ~Has(next, a) /\ Has(next, b)
          /\ next[b] = prev[a] /\ prev[b].color # prev[a].color
          /\ Has(callResult[1].fadings, b)
          /\ callResult[1].fadings[b] = prev[b]
          /\ Has(callResult[1].anims, b)

\* The sum of the squared board distances of the motions of m, a function
\* from newly occupied squares to origins.
RECURSIVE totalCost(_)
totalCost(m) ==
  IF DOMAIN m = {} THEN 0
  ELSE LET k == CHOOSE x \in DOMAIN m : TRUE
       IN distanceSq(m[k], k) + totalCost([x \in DOMAIN m \ {k} |-> m[x]])

\* The pairings of newly placed pieces with distinct gone pieces of the same
\* colour and role.
Pairings(prev, next) ==
  LET miss == { sq \in PlanSquares : GoneFrom(prev, next, sq) }
      new == { sq \in DOMAIN next : ~Has(prev, sq) \/ prev[sq] # next[sq] }
  IN { m \in UNION { [N -> miss] : N \in SUBSET new } :
         /\ \A k \in DOMAIN m : prev[m[k]] = next[k]
         /\ \A j \in DOMAIN m, k \in DOMAIN m : m[j] = m[k] => j = k }

\* C29 (as stated): the plan pairs as many newly placed pieces as any pairing
\* does, and no pairing of that many has a smaller total squared distance.
C29_PlanIsMinimalCost ==
  Called("computeAnimPlan")
  => LET prev == callArgs[1].args[1]
         next == callArgs[1].args[2]
         plan == callResult[1]
         ofPlan == [k \in DOMAIN plan.anims |-> plan.anims[k].fromPos]
     IN /\ ofPlan \in Pairings(prev, next)
        /\ \A m \in Pairings(prev, next) :
             /\ Cardinality(DOMAIN m) <= Cardinality(DOMAIN ofPlan)
             /\ Cardinality(DOMAIN m) = Cardinality(DOMAIN ofPlan)
                => totalCost(ofPlan) <= totalCost(m)

\* C23 (as stated): with rest = 1 (elapsed time 0) the piece is drawn at the
\* screen position of the origin square of its motion, and once the plan is
\* dropped at that of its destination square, in both orientations.
C23_StartsAtOriginEndsAtDestination ==
  Called("pieceTransform")
  => LET vec == callArgs[1].args[1]
         n == callArgs[1].args[2]
         white == callArgs[1].args[3]
         scale == RestSteps * RestSteps * RestSteps
         at(pos) == pos2translate(pos, white, BoardRect.width, BoardRect.height)
     IN /\ n = RestSteps
           => callResult[1] = << scale * at(vec.fromPos)[1], scale * at(vec.fromPos)[2] >>
        /\ n = 0
           => callResult[1] = << scale * at(vec.toPos)[1], scale * at(vec.toPos)[2] >>

\* The squares strictly between a and b on a common rank, file or diagonal.
Between(a, b) ==
  LET df == b[1] - a[1]
      dr == b[2] - a[2]
      n == IF Abs(df) > Abs(dr) THEN Abs(df) ELSE Abs(dr)
  IN IF a = b \/ ~(df = 0 \/ dr = 0 \/ Abs(df) = Abs(dr)) THEN {}
     ELSE { << a[1] + (df \div n) * i, a[2] + (dr \div n) * i >> : i \in 1..(n - 1) }

\* C24 (as stated): for a bishop, rook or queen no destination lies beyond an
\* occupied square of its ray, whatever the colour of the piece there.
C24_SlidersStopAtFirstOccupant ==
  Called("premoveDests")
  => LET square == callArgs[1].args[1]
         pieces_ == callArgs[1].args[2]
     IN pieces_[square].role \in {"b", "r", "q"}
        => \A i \in 1..Len(callResult[1]) :
             \A o \in Between(square, callResult[1][i]) : ~Has(pieces_, o)

\* C25 (as stated): no destination holds a piece of the mover's colour,
\* whatever the role of the mover.
C25_NeverOntoOwnPiece ==
  Called("premoveDests")
  => \A i \in 1..Len(callResult[1]) :
       LET t == callResult[1][i]
       IN ~(Has(callArgs[1].args[2], t)
            /\ callArgs[1].args[2][t].color = callArgs[1].args[3])

\* The set of the squares of a list without repetition.
ExactlySquares(list, S) ==
  { list[i] : i \in 1..Len(list) } = S /\ Len(list) = Cardinality(S)

\* C26: for a lone rook the destinations are the other squares of its file
\* and rank, and for a lone knight its knight jumps that fall on the board,
\* each once, from every origin.
C26_LoneRookAndKnight ==
  (Called("premoveDests") /\ Cardinality(DOMAIN callArgs[1].args[2]) = 1)
  => LET square == callArgs[1].args[1]
         role == callArgs[1].args[2][square].role
     IN /\ role = "r"
           => ExactlySquares(callResult[1],
                { t \in Squares : t # square /\ (t[1] = square[1] \/ t[2] = square[2]) })
        /\ role = "n"
           => ExactlySquares(callResult[1],
                { t \in Squares :
                    LET df == Abs(t[1] - square[1])
                        dr == Abs(t[2] - square[2])
                    IN (df = 1 /\ dr = 2) \/ (df = 2 /\ dr = 1) })

\* C26 witness: the knight alone on b1 got a3, c3 and d2.
C26_Witness ==
  /\ Called("premoveDests")
  /\ callArgs[1].args[1] = <<1, 0>>
  /\ DOMAIN callArgs[1].args[2] = { <<1, 0>> }
  /\ callArgs[1].args[2][<<1, 0>>].role = "n"
  /\ ExactlySquares(callResult[1], { <<0, 2>>, <<2, 2>>, <<3, 1>> })

\* C27: reading back the FEN written for a position gives the position,
\* square by square, the empty board included.
C27_FenRoundTrip ==
  Called("readFen(writeFen)") => callResult[1].pieces = callArgs[1].args

\* C27 witness: a position with pieces of both colours next to each other
\* and empty squares before and after them was written and read back.
C27_Witness ==
  /\ Called("readFen(writeFen)")
  /\ DOMAIN callArgs[1].args = { <<1, 7>>, <<7, 7>>, <<3, 3>> }
  /\ callArgs[1].args[<<1, 7>>] = Piece("w", "q")
  /\ callArgs[1].args[<<7, 7>>] = Piece("b", "n")
  /\ callResult[1].fen
       = << "1", "Q", "5", "n", "/", "8", "/", "8", "/", "8", "/" >>
         \o << "3", toUpperCase(callArgs[1].args[<<3, 3>>].role), "4" >>
         \o << "/", "8", "/", "8", "/", "8" >>
  /\ callArgs[1].args[<<3, 3>>].color = "w"
  /\ callResult[1].pieces = callArgs[1].args

\* C28: a point of the on-screen cell of a square, its centre included, is
\* converted back to that square, in both orientations and for every
\* rectangle.
C28_CellPointsGiveTheSquare ==
  Called("screenPos2square") => callResult[1].square = callArgs[1].args[1]

\* C28 witness: under black orientation the centre of h1 on the board whose
\* origin is off the grid, in the upper left cell, gave h1 back.
C28_Witness ==
  /\ Called("screenPos2square")
  /\ callArgs[1].args[1] = <<7, 0>>
  /\ ~callArgs[1].args[2]
  /\ callArgs[1].args[3].left = 37
  /\ callArgs[1].args[4] = None
  /\ callResult[1].point = <<38, -15>>
  /\ callResult[1].square = <<7, 0>>

\* C28 witness for a point other than the centre: the last point of the
\* cell of a8 under white orientation.
C28_WitnessCorner ==
  /\ Called("screenPos2square")
  /\ callArgs[1].args[1] = <<0, 7>>
  /\ callArgs[1].args[2]
  /\ callArgs[1].args[3].left = 0
  /\ callArgs[1].args[4] = Some(<<5, 5>>)
  /\ callResult[1].square = <<0, 7>>

\* Which of the five cases a click on sq falls in, by the priority of the
\* claim, on the state the handler reads.
ClickCase(sq) ==
  IF selectedSquare # None /\ Includes(legalSquares, sq) THEN 1
  ELSE IF selectedSquare # None /\ Includes(premoveSquares, sq) THEN 2
  ELSE IF selectedSquare = sq THEN 3
  ELSE IF Has(pieces, sq) /\ selectPiece(Draft, sq).done THEN 4
  ELSE 5

\* The calls made after entry i of the log that carry one of the names.
CalledAfter(l, i, names) ==
  { j \in (i + 1)..Len(l) : l[j].fn \in names }

\* C30 (as stated): a click handled by the square interaction does what the
\* first applicable case says and nothing of the later ones: (1) the move
\* selected -> clicked is attempted, and the click is not also treated as a
\* click on the square (no premove, no reselection, no clearing click); (2)
\* the premove selected -> clicked is armed; (3) the selection is dropped;
\* (4) the piece is selected with its destinations; (5) the selection is
\* cleared.
C30_ClickPriority ==
  [][ (opts.interactive /\ ~justDrewArrowRef)
      => \A i \in CallsIn(log', "handleSquareInteraction") :
           LET sq == log'[i].args[1]
               k == ClickCase(sq)
               attempts == CalledAfter(log', i, {"attemptMove"})
               arms == CalledAfter(log', i, {"premovable.events.set"})
               clicks == CalledAfter(log', i, {"onSquareClick"})
           IN /\ k = 1 => /\ attempts # {}
                          /\ \A j \in attempts :
                               log'[j].args = <<selectedSquare, sq, "">>
                          /\ arms = {} /\ clicks = {}
                          /\ selectedSquare' # sq
              /\ k = 2 => /\ attempts = {} /\ clicks = {}
                          /\ premovableEnabled(opts)
                             => /\ arms # {}
                                /\ \A j \in arms :
                                     log'[j].args = <<selectedSquare, sq>>
              /\ k = 3 => /\ attempts = {} /\ arms = {} /\ clicks = {}
                          /\ selectedSquare' = None
              /\ k = 4 => /\ attempts = {} /\ arms = {}
                          /\ selectedSquare' = sq
                          /\ legalSquares' = selectPiece(Draft, sq).d.legal
                          /\ premoveSquares' = selectPiece(Draft, sq).d.pm
              /\ k = 5 => /\ attempts = {} /\ arms = {}
                          /\ selectedSquare' = None ]_vars

\* The square sq of next holds a piece that prev did not hold there.
CameTo(prev, next, sq) ==
  Has(next, sq) /\ (~Has(prev, sq) \/ prev[sq] # next[sq])

\* a comes before b in the order file a to h, rank 1 to 8 within a file.
EarlierSquare(a, b) == a[1] < b[1] \/ (a[1] = b[1] /\ a[2] < b[2])

\* The gone piece on m has been taken as an origin by a motion that ends on
\* a square before newSq.
ConsumedBefore(plan, m, newSq) ==
  \E k \in DOMAIN plan.anims : EarlierSquare(k, newSq) /\ plan.anims[k].fromPos = m

\* C33: the plan is the greedy matching. For each square a piece came to, in
\* square order, the gone pieces of its colour and role not taken by an
\* earlier square are its candidates; with none it gets no motion, else its
\* motion starts from the candidate nearest by squared distance, the earlier
\* square on a tie. No gone piece is the origin of two motions.
C33_GreedyNearestMatching ==
  Called("computeAnimPlan")
  => LET prev == callArgs[1].args[1]
         next == callArgs[1].args[2]
         plan == callResult[1]
         free(newSq) == { m \in Squares :
                            /\ GoneFrom(prev, next, m)
                            /\ prev[m] = next[newSq]
                            /\ ~ConsumedBefore(plan, m, newSq) }
     IN /\ DOMAIN plan.anims \subseteq { sq \in Squares : CameTo(prev, next, sq) }
        /\ \A newSq \in Squares :
             CameTo(prev, next, newSq)
             => IF free(newSq) = {} THEN ~Has(plan.anims, newSq)
                ELSE /\ Has(plan.anims, newSq)
                     /\ plan.anims[newSq].toPos = newSq
                     /\ plan.anims[newSq].fromPos \in free(newSq)
                     /\ \A m \in free(newSq) \ {plan.anims[newSq].fromPos} :
                          LET c == plan.anims[newSq].fromPos
                          IN \/ distanceSq(c, newSq) < distanceSq(m, newSq)
                             \/ /\ distanceSq(c, newSq) = distanceSq(m, newSq)
                                /\ EarlierSquare(c, m)
        /\ \A j \in DOMAIN plan.anims, k \in DOMAIN plan.anims :
             plan.anims[j].fromPos = plan.anims[k].fromPos => j = k

\* C33 witness: a piece came to a2 with gone pieces of its kind equally near
\* on a1 and a3, and a second one came to b2; the first took a1, the second
\* what was left.
C33_Witness ==
  /\ Called("computeAnimPlan")
  /\ DOMAIN callArgs[1].args[1] = { <<0, 0>>, <<0, 2>> }
  /\ DOMAIN callArgs[1].args[2] = { <<0, 1>>, <<1, 1>> }
  /\ \A sq \in { <<0, 0>>, <<0, 2>> } : callArgs[1].args[1][sq] = Piece("w", "r")
  /\ \A sq \in { <<0, 1>>, <<1, 1>> } : callArgs[1].args[2][sq] = Piece("w", "r")
  /\ callResult[1].anims[<<0, 1>>].fromPos = <<0, 0>>
  /\ callResult[1].anims[<<1, 1>>].fromPos = <<0, 2>>

\* C40: in every plan each motion is keyed by a square a piece came to, its
\* origin is another square from which a piece of that colour and role is
\* gone, distinct motions have distinct origins, no square is a fade and an
\* origin, motions and fades together number the squares a piece is gone
\* from, and the plan for two equal positions is empty.
C40_PlanWellFormed ==
  Called("computeAnimPlan")
  => LET prev == callArgs[1].args[1]
         next == callArgs[1].args[2]
         plan == callResult[1]
     IN /\ \A k \in DOMAIN plan.anims :
             /\ CameTo(prev, next, k)
             /\ Has(prev, plan.anims[k].fromPos)
             /\ prev[plan.anims[k].fromPos].color = next[k].color
             /\ prev[plan.anims[k].fromPos].role = next[k].role
             /\ plan.anims[k].fromPos # k
        /\ \A j \in DOMAIN plan.anims, k \in DOMAIN plan.anims :
             j # k => plan.anims[j].fromPos # plan.anims[k].fromPos
        /\ DOMAIN plan.fadings \cap OriginsOf(plan) = {}
        /\ Cardinality(DOMAIN plan.anims) + Cardinality(DOMAIN plan.fadings)
             = Cardinality({ sq \in Squares : GoneFrom(prev, next, sq) })
        /\ prev = next => (DOMAIN plan.anims = {} /\ DOMAIN plan.fadings = {})

\* C40 witness: a plan with two motions and a fade was computed.
C40_Witness ==
  /\ Called("computeAnimPlan")
  /\ Cardinality(DOMAIN callResult[1].anims) = 2
  /\ Cardinality(DOMAIN callResult[1].fadings) = 1
  /\ Cardinality({ sq \in Squares :
                     GoneFrom(callArgs[1].args[1], callArgs[1].args[2], sq) }) = 3

\* The release logged at entry i of l led to a move (accepted or pending a
\* promotion choice) or armed a premove.
ReleaseYielded(l, i) ==
  \/ \E j \in CalledAfter(l, i, {"attemptMove.return"}) : l[j].args[3] # "false"
  \/ CalledAfter(l, i, {"premovable.events.set"}) # {}

\* The state of the hook a cancelled drag could touch.
hookState ==
  << selectedSquare, legalSquares, premoveSquares, premoveCurrent,
     pendingPromotion, internalArrowsMap, internalMarksMap >>

\* C31 (as stated): the release of a started drag that yields neither a move
\* nor a premove clears the selection and both highlight lists if the
\* pointer passed over a square other than the origin during the drag, and
\* touches no state if it did not.
C31_CancelledDragClears ==
  [][ \A i \in CallsIn(log', "dragRelease") :
        ~ReleaseYielded(log', i)
        => IF dragKeyChangedRef
           THEN /\ selectedSquare' = None
                /\ legalSquares' = <<>>
                /\ premoveSquares' = <<>>
           ELSE UNCHANGED hookState ]_vars

\* C31 (amended): such a release clears the selection and both highlight
\* lists when it falls on the origin square or off the board after the
\* pointer passed over another square; in every other case - the pointer
\* never passed over another square, or the release falls on another square -
\* it leaves selection and highlights as they were.
C31_CancelledDragOnOriginClears ==
  [][ \A i \in CallsIn(log', "dragRelease") :
        ~ReleaseYielded(log', i)
        => IF /\ dragKeyChangedRef
              /\ (log'[i].args[2] = None \/ log'[i].args[2] = log'[i].args[1])
           THEN /\ selectedSquare' = None
                /\ legalSquares' = <<>>
                /\ premoveSquares' = <<>>
                /\ UNCHANGED << premoveCurrent, pendingPromotion,
                                internalArrowsMap, internalMarksMap >>
           ELSE UNCHANGED hookState ]_vars

\* C31 witness: a drag of a selectable piece that passed over another square
\* was released on its origin, and nothing is selected.
C31_Witness ==
  /\ EnteredIn(log, "handleUp")
  /\ \E i \in CallsIn(log, "dragRelease") :
       /\ log[i].args[2] = log[i].args[1]
       /\ Has(pieces, log[i].args[1])
       /\ selectPiece(Draft, log[i].args[1]).done
  /\ dragKeyChangedRef
  /\ selectedSquare = None

\* C32: dismissing a pending promotion leaves no pending promotion, no
\* selection and no destination highlights and calls onMove not once; and a
\* press of the primary button or a touch on a square of the board right
\* after the dismissal is handled - it arms a drag or goes to the square
\* interaction.
C32_DismissClearsWithoutMoving ==
  [][ /\ EnteredIn(log', "handlePromotionDismiss")
         => /\ pendingPromotion' = None
            /\ selectedSquare' = None
            /\ legalSquares' = <<>>
            /\ premoveSquares' = <<>>
            /\ CallsIn(log', "onMove") = {}
      /\ (EnteredIn(log, "handlePromotionDismiss")
          /\ EnteredIn(log', "handlePointerDown")
          /\ log'[1].args[1] = "primary"
          /\ squareAt(log'[1].args[2]) # None)
         => \/ dragRef' # None
            \/ CallsIn(log', "handleSquareInteraction") # {} ]_vars

\* C32 witness: a pending promotion has just been dismissed.
C32_Witness ==
  /\ EnteredIn(log, "handlePromotionDismiss")
  /\ pendingPromotion = None
  /\ selectedSquare = None

\* C36: a render that passes another position leaves no selection, no
\* destination highlights and no pending promotion, and leaves the drag
\* state and the stored arrows and marks as they were; when the render
\* changes nothing but the position, the stored premove is as it was too.
C36_PositionChangeResetsSelection ==
  [][ opts'.position # opts.position
      => /\ selectedSquare' = None
         /\ legalSquares' = <<>>
         /\ premoveSquares' = <<>>
         /\ pendingPromotion' = None
         /\ UNCHANGED << drag, dragRef, dragKeyChangedRef,
                         internalArrowsMap, internalMarksMap >>
         /\ opts' = [opts EXCEPT !.position = opts'.position]
            => UNCHANGED premoveCurrent ]_vars

\* C36 witness: the position was replaced, and nothing else, while a premove
\* was stored and a drag was under way.
C36_Witness ==
  /\ log = <<>>
  /\ premoveCurrent # None
  /\ dragRef # None
  /\ opts.position = 2
  /\ selectedSquare = None

\* C36 witness: states in which a pending promotion is open and a square is
\* selected, from which the position can be replaced.
C36_WitnessPending ==
  /\ pendingPromotion # None
  /\ selectedSquare # None

\* C37: with no square selected both destination lists are empty, and the
\* two lists are never both non-empty.
C37_HighlightsFollowSelection ==
  /\ selectedSquare = None => (legalSquares = <<>> /\ premoveSquares = <<>>)
  /\ legalSquares = <<>> \/ premoveSquares = <<>>

\* C37 witness: a premove has just been armed from a selection that showed
\* premove destinations, and nothing is selected or highlighted.
C37_Witness ==
  /\ CallsIn(log, "premovable.events.set") # {}
  /\ premoveCurrent # None
  /\ selectedSquare = None
  /\ legalSquares = <<>> /\ premoveSquares = <<>>

\* C37 witness: a selection showing legal destinations, one showing premove
\* destinations.
C37_WitnessLegal == selectedSquare # None /\ legalSquares # <<>>

C37_WitnessPremove == selectedSquare # None /\ premoveSquares # <<>>

\* The number of dispatches to the square interaction in a log.
Dispatches(l) == Cardinality(CallsIn(l, "handleSquareInteraction"))

\* C35: with no promotion pending and no drag armed by an earlier press, a
\* press of the primary button on a board square either arms a drag for that
\* square and dispatches nothing, or arms none and dispatches the square
\* once; the release that follows with the pointer having stayed below the
\* drag threshold dispatches the pressed square once if a drag is armed and
\* nothing if none is, and leaves no drag armed; and between the two nothing
\* arms a drag and nothing is dispatched. So the press and its release
\* dispatch exactly once.
C35_ClickDispatchedOnce ==
  [][ /\ (EnteredIn(log', "handlePointerDown") /\ log'[1].args[1] = "primary"
          /\ pendingPromotion = None /\ dragRef = None
          /\ opts.boardBounds # None)
         => LET sq == squareAt(log'[1].args[2])
            IN sq # None
               => IF dragRef' # None
                  THEN /\ dragRef'[1].origSquare = sq
                       /\ Dispatches(log') = 0
                  ELSE /\ Dispatches(log') = 1
                       /\ \A i \in CallsIn(log', "handleSquareInteraction") :
                            log'[i].args[1] = sq
      /\ (EnteredIn(log', "handleUp") /\ log'[1].args[1] = "primary")
         => /\ dragRef' = None
            /\ IF dragRef = None THEN Dispatches(log') = 0
               ELSE ~travelled
                    => /\ Dispatches(log') = 1
                       /\ \A i \in CallsIn(log', "handleSquareInteraction") :
                            log'[i].args[1] = dragRef[1].origSquare
      /\ ~(EnteredIn(log', "handlePointerDown") \/ EnteredIn(log', "handleUp"))
         => /\ Dispatches(log') = 0
            /\ dragRef = None => dragRef' = None ]_vars

\* C35 witness: a press that armed no drag was dispatched at press time.
C35_Witness ==
  /\ EnteredIn(log, "handlePointerDown")
  /\ dragRef = None
  /\ Dispatches(log) = 1

\* C35 witness: a press that armed a drag was dispatched at release time,
\* after the pointer moved less than the threshold.
C35_WitnessRelease ==
  /\ EnteredIn(log, "handleUp")
  /\ log[1].args[2]
  /\ Dispatches(log) = 1

\* What the store a toggle of arrows wrote to held before, and what was
\* written to it: the list kept by the host for the move index (the list
\* passed in plyArrows), the host's global list, or the board's own list for
\* the move index.
ArrowStoreWritten(l, i) ==
  IF CalledAfter(l, i, {"onPlyArrowsChange"}) # {}
  THEN [before |-> IF opts.plyArrows # None
                   THEN mapGet(opts.plyArrows[1], ply) ELSE <<>>,
        after |-> { l[j].args[2] : j \in CalledAfter(l, i, {"onPlyArrowsChange"}) }]
  ELSE IF CalledAfter(l, i, {"onArrowsChange"}) # {}
  THEN [before |-> opts.arrows,
        after |-> { l[j].args : j \in CalledAfter(l, i, {"onArrowsChange"}) }]
  ELSE [before |-> mapGet(internalArrowsMap, ply),
        after |-> { mapGet(internalArrowsMap', ply) }]

MarkStoreWritten(l, i) ==
  IF CalledAfter(l, i, {"onPlyMarksChange"}) # {}
  THEN [before |-> IF opts.plyMarks # None
                   THEN mapGet(opts.plyMarks[1], ply) ELSE <<>>,
        after |-> { l[j].args[2] : j \in CalledAfter(l, i, {"onPlyMarksChange"}) }]
  ELSE IF CalledAfter(l, i, {"onMarkedSquaresChange"}) # {}
  THEN [before |-> opts.markedSquares[1],
        after |-> { l[j].args : j \in CalledAfter(l, i, {"onMarkedSquaresChange"}) }]
  ELSE IF internalMarksMap' # internalMarksMap
  THEN [before |-> mapGet(internalMarksMap, ply),
        after |-> { mapGet(internalMarksMap', ply) }]
  ELSE [before |-> <<>>, after |-> {}]

\* C38 (as stated): whatever overlay inputs the host supplies, the list a
\* toggle writes to a store is the toggle of the list that store held.
C38_ToggleReadsTheStoreItWrites ==
  [][ /\ \A i \in CallsIn(log', "toggleArrow") :
           LET w == ArrowStoreWritten(log', i)
           IN w.after = { toggleArrowList(w.before, log'[i].args[1],
                                          log'[i].args[2], log'[i].args[3]) }
      /\ \A i \in CallsIn(log', "toggleMark") :
           LET w == MarkStoreWritten(log', i)
           IN w.after \subseteq { toggleList(w.before, log'[i].args[1]) } ]_vars

\* C39: a step at move index i - an arrow toggle, a mark toggle, a clearing
\* click, or any other - leaves the board's own arrows and marks of every
\* other index as they were, and each write to the host's per-index stores
\* names index i.
C39_OtherIndicesUntouched ==
  [][ /\ \A j \in (DOMAIN internalArrowsMap \cup DOMAIN internalArrowsMap') \ {ply} :
           mapGet(internalArrowsMap', j) = mapGet(internalArrowsMap, j)
      /\ \A j \in (DOMAIN internalMarksMap \cup DOMAIN internalMarksMap') \ {ply} :
           mapGet(internalMarksMap', j) = mapGet(internalMarksMap, j)
      /\ \A k \in CallsIn(log', "onPlyArrowsChange") \cup CallsIn(log', "onPlyMarksChange") :
           log'[k].args[1] = ply ]_vars

\* C39 witness: an arrow has just been toggled at index 2 while the board
\* keeps other arrows for index 1.
C39_Witness ==
  /\ CallsIn(log, "toggleArrow") # {}
  /\ opts.plyIndex = Some(2)
  /\ mapGet(internalArrowsMap, 1) # <<>>
  /\ mapGet(internalArrowsMap, 2) # <<>>
  /\ mapGet(internalArrowsMap, 2) # mapGet(internalArrowsMap, 1)

\* C39 witness: a mark has just been toggled at index 2 while the board keeps
\* marks for index 1.
C39_WitnessMark ==
  /\ CallsIn(log, "toggleMark") # {}
  /\ opts.plyIndex = Some(2)
  /\ mapGet(internalMarksMap, 1) # <<>>
  /\ mapGet(internalMarksMap, 2) # mapGet(internalMarksMap, 1)

\* C39 witness: a click has just cleared the arrows of index 2, those of
\* index 1 are still there.
C39_WitnessClear ==
  /\ CallsIn(log, "onClearOverlays") # {}
  /\ opts.plyIndex = Some(2)
  /\ mapGet(internalArrowsMap, 2) = <<>>
  /\ mapGet(internalArrowsMap, 1) # <<>>

\* C39 witness: a write to the host's per-index store at index 2.
C39_WitnessHost ==
  /\ opts.plyIndex = Some(2)
  /\ CallsIn(log, "onPlyMarksChange") # {}


\* ------------------------------------------------------------------------
\* The render of PiecesLayer: which position changes are animated
\* ------------------------------------------------------------------------
\* A king and pawn ending (white: Ke1, e2; black: Ke8), the position after
\* e2-e4 and the one after e2-e4 Ke8-e7.
FEN_ENDING ==
  << "4", "k", "3", "/", "8", "/", "8", "/", "8", "/", "8", "/", "8", "/",
     "4", "P", "3", "/", "4", "K", "3" >>

FEN_AFTER_E4 ==
  << "4", "k", "3", "/", "8", "/", "8", "/", "8", "/", "4", "P", "3", "/",
     "8", "/", "8", "/", "4", "K", "3" >>

FEN_AFTER_E4_KE7 ==
  << "8", "/", "4", "k", "3", "/", "8", "/", "8", "/", "4", "P", "3", "/",
     "8", "/", "8", "/", "4", "K", "3" >>

\* The position prop (the host always supplies one): the ending, the
\* position after e2-e4 written with either side to move, and the position
\* after e2-e4 Ke8-e7.
LayerPositions ==
  { Some(FEN_ENDING),
    Some(FEN_AFTER_E4 \o << " ", "b" >>), Some(FEN_AFTER_E4 \o << " ", "w" >>),
    Some(FEN_AFTER_E4_KE7 \o << " ", "w" >>) }

\* The draggingSquare prop: none, or e2.
LayerDragging == { None, Some(<< 4, 1 >>) }

\* The animationDurationMs prop: one below 50 ms, and the durations of the
\* clock (a clock unit is 50 ms).
LayerDurations == { 40 } \cup { 50 * d : d \in AnimationDurations }

\* One render of PiecesLayer and the layout effect that follows it.  The
\* plan installed keeps its number and its duration in clock units; a plan is
\* only installed while the clock can still run through it.
PiecesLayerRender(position, draggingSquare, showAnimations, animationDurationMs) ==
  LET currentPos == IF position = None THEN INITIAL_FEN ELSE position[1]
      prevPos == positionHistory.last
      changed == currentPos # prevPos
      dragEnded == prevDraggingRef # None /\ draggingSquare = None
      skip1 == IF changed /\ dragEnded THEN TRUE ELSE skipNextAnimRef
      pendingAnimPlan ==
        IF changed /\ ~skip1 /\ showAnimations /\ animationDurationMs >= 50
        THEN LET plan == computeAnimPlan(readFen(prevPos), readFen(currentPos))
             IN IF DOMAIN plan.anims = {} THEN None
                ELSE Some([plan |-> planCount + 1,
                           duration |-> animationDurationMs \div 50])
        ELSE None
      skip2 == IF changed THEN FALSE ELSE skipNextAnimRef
  IN /\ pendingAnimPlan # None
          => planCount < MaxPlans /\ now + pendingAnimPlan[1].duration <= MaxTime
     /\ positionHistory' = IF changed THEN [prev |-> prevPos, last |-> currentPos]
                           ELSE positionHistory
     /\ skipNextAnimRef' = IF dragEnded THEN TRUE ELSE skip2
     /\ prevDraggingRef' = draggingSquare
     /\ planCount' = IF pendingAnimPlan # None THEN planCount + 1 ELSE planCount
     /\ layoutEffect(pendingAnimPlan)
     /\ sinceDragEnd' =
          IF dragEnded THEN Some(IF changed THEN 1 ELSE 0)
          ELSE IF changed /\ sinceDragEnd # None
          THEN Some(IF sinceDragEnd[1] = 0 THEN 1 ELSE 2)
          ELSE sinceDragEnd
     /\ UNCHANGED << opts, selectedSquare, legalSquares, premoveSquares,
                     premoveCurrent, pendingPromotion, drag, dragRef,
                     arrowStartRef, arrowColorRef, arrowPosRef,
                     justDrewArrowRef, dragKeyChangedRef, internalArrowsMap,
                     internalMarksMap, timers, travelled, callVars, now,
                     controllerCurrent, controllerRafId >>

LayerRender ==
  \E position \in LayerPositions, draggingSquare \in LayerDragging,
     showAnimations \in BOOLEAN, animationDurationMs \in LayerDurations :
    PiecesLayerRender(position, draggingSquare, showAnimations,
                      animationDurationMs)

\* The board is mounted with the ending, and nothing is dragged.
InitLayer ==
  /\ opts = PureHost
  /\ InitRefs
  /\ FirstPosition(FEN_ENDING)
  /\ callArgs = None
  /\ callResult = None

\* The renders alone: the clock stands still, and no frame callback runs
\* between them.
SpecLayer == InitLayer /\ [][LayerRender]_vars

\* Something moves between the two positions.
SomethingMoves(prevPos, currentPos) ==
  DOMAIN computeAnimPlan(readFen(prevPos), readFen(currentPos)).anims # {}

\* C34: with animations shown and a duration of 50 ms or more, a render of
\* PiecesLayer with a changed position installs no plan when that change is
\* the first one rendered at or after the render in which a drag ended, and
\* animates it otherwise (it installs a plan whenever something moves),
\* whether or not the drag ended in that same render.
C34_DragEndSuppressesOneChange ==
  [][\A position \in LayerPositions, draggingSquare \in LayerDragging,
        animationDurationMs \in LayerDurations :
       ( /\ PiecesLayerRender(position, draggingSquare, TRUE, animationDurationMs)
         /\ animationDurationMs >= 50
         /\ positionHistory'.last # positionHistory.last )
       => /\ Len(log') = 1 /\ log'[1].fn = "useLayoutEffect"
          /\ (log'[1].args[1] # 0)
               <=> ( /\ sinceDragEnd' # Some(1)
                     /\ SomethingMoves(positionHistory.last,
                                       positionHistory'.last) )]_vars

====
